---- MODULE Spec2Model ----
(***************************************************************************)
(* PaymentManager of the Masumi plugin (src/src/managers/payment.ts): the  *)
(* in-memory payment store, the remote calls of create / check / submit /  *)
(* refund with their continuations, and the status monitor driven by       *)
(* setInterval; RegistryManager (src/src/managers/registry.ts) with its    *)
(* agent cache; and the tool functions (src/src/tools/index.ts), each on a *)
(* manager of its own.                                                     *)
(*                                                                         *)
(* Execution model: Node's single thread.  The code of a method runs       *)
(* atomically up to its next `await this.client.post(...)`; the request is *)
(* then in flight, and the continuation runs atomically when the answer    *)
(* arrives.  Answers of concurrent requests may arrive in any order.       *)
(***************************************************************************)
EXTENDS Integers, Sequences, FiniteSets, TLC

VARIABLES
  agentIdentifier,        \* this.config.agentIdentifier
  pendingPayments,        \* this.pendingPayments: the Map, in insertion order
  registeredAgents,       \* RegistryManager's this.registeredAgents: the Map, in insertion order
  statusMonitorInterval,  \* this.statusMonitorInterval: a timer handle or NoTimer
  isMonitoring,           \* this.isMonitoring
  activeTimers,           \* the runtime's intervals that were set and not cleared
  listeners,              \* the listeners registered on the manager (EventEmitter)
  inflight,               \* remote calls awaiting their answer, oldest first
  ledger,                 \* the remote ledger's own state of every payment
  lastOp,                 \* the step just taken and what it gave its caller
  emitted,                \* the events emitted by the step just taken, in order
  polled,                 \* the identifiers the monitor passed to checkPaymentStatus in this step
  lastRefresh,            \* history: the run of successful refreshes of one identifier
  createdWith,            \* history: the identifierFromPurchaser each payment was created with
  everTerminal,           \* history: identifiers whose cached state has been terminal since insertion
  closed,                 \* history: close has been called
  journey,                \* history: how far the store's one payment is through its lifecycle
  announced,              \* history: the new states payment:state_changed has announced, per identifier
  cycle                   \* history: the identifiers the monitor's cycle under way has polled

vars == <<agentIdentifier, pendingPayments, registeredAgents, statusMonitorInterval,
          isMonitoring,
          activeTimers, listeners, inflight, ledger, lastOp, emitted, polled,
          lastRefresh, createdWith, everTerminal, closed, journey, announced, cycle>>

(***************************************************************************)
(* Values                                                                  *)
(***************************************************************************)
\* JavaScript's undefined: a missing field, a missing Map entry, an omitted parameter.
Absent == "undefined"

\* this.statusMonitorInterval while undefined; the handles are 1, 2, ...
NoTimer == 0

\* this.config.network
Network == "Preprod"

\* JavaScript's null, which the state-change event carries for a missing state.
Null == "null"

\* The empty string.
Empty == ""

\* JavaScript's truthiness of a text or of a missing value: undefined, null
\* and the empty string are falsy (`!x`, `x && ...`, `x || ...`, `if (x)`).
Truthy(v) == v \notin {Absent, Null, Empty}

\* The identifiers the remote ledger may assign, the purchaser identifiers
\* and the work results callers supply.
Ids == {"b1", "b2"}
MonitorIds == {"b1", "b2", "b3"}
Purchasers == {"p1", "p2"}
Outputs == {"out1"}

\* The errors a remote call can fail with.
Errors == {"ETIMEDOUT", "HTTP500"}

\* PaymentState, in lifecycle order.
PaymentState == <<"WaitingForExternalAction", "FundsLocked", "ResultSubmitted",
                  "Withdrawn", "RefundWithdrawn", "DisputedWithdrawn">>

States == {PaymentState[i] : i \in 1..Len(PaymentState)}

completedStates == {"Withdrawn", "RefundWithdrawn", "DisputedWithdrawn"}

\* A PaymentRequest as the remote returns it.
Payment(bid, purchaser, state, payBy, submitBy) ==
  [blockchainIdentifier |-> bid, identifierFromPurchaser |-> purchaser,
   onChainState |-> state, payByTime |-> payBy, submitResultTime |-> submitBy,
   NextAction |-> [requestedAction |-> "None"]]

\* An answer that came without its NextAction.
WithoutNextAction(payment) == [f \in DOMAIN payment \ {"NextAction"} |-> payment[f]]

\* response.NextAction.requestedAction can be read: reading a field of
\* undefined throws a TypeError.
HasNextAction(response) == "NextAction" \in DOMAIN response

(***************************************************************************)
(* Bounds                                                                  *)
(***************************************************************************)
MaxInFlight == 1     \* Spec: remote calls in flight at once
MaxPolls == 1        \* SpecMonitor: remote calls in flight at once
MaxRace == 2         \* SpecLedger: remote calls in flight at once
MaxFieldCalls == 1   \* SpecFields: remote calls in flight at once
MaxListCalls == 1    \* SpecList: remote calls in flight at once

\* There is room for one more remote call under the bound `max`.
Room(max) == Len(inflight) < max

(***************************************************************************)
(* The Map this.pendingPayments: a sequence of entries in insertion order. *)
(* set() of a present key keeps its place, set() of a new key appends.     *)
(***************************************************************************)
MapKeys(m) == {m[i].key : i \in 1..Len(m)}

MapHas(m, k) == k \in MapKeys(m)

MapIndex(m, k) == CHOOSE i \in 1..Len(m) : m[i].key = k

MapGet(m, k) == IF MapHas(m, k) THEN m[MapIndex(m, k)].val ELSE Absent

MapSet(m, k, v) ==
  IF MapHas(m, k)
  THEN [m EXCEPT ![MapIndex(m, k)] = [key |-> k, val |-> v]]
  ELSE Append(m, [key |-> k, val |-> v])

\* existing?.onChainState
CachedState(m, k) == IF MapHas(m, k) THEN MapGet(m, k).onChainState ELSE Absent

(***************************************************************************)
(* Hashing (utils/hashing): the digest of a payload and a salt.  A digest  *)
(* is kept symbolic: the pair it was computed from, so that two digests    *)
(* are equal exactly when payload and salt are.                            *)
(***************************************************************************)
createMasumiOutputHash(outputData, salt) == <<"sha256", outputData, salt>>

\* createMasumiInputHash(inputData, identifierFromPurchaser)
createMasumiInputHash(inputData, salt) == <<"sha256", inputData, salt>>

(***************************************************************************)
(* Canonical serialization of a structured payload.  A JSON value is a     *)
(* string or an object; an object keeps its entries in insertion order, as *)
(* a JavaScript object does.  The serialization is kept as the value whose *)
(* objects have their entries sorted by key at every level: its text is    *)
(* determined by it and determines it.  A string is used verbatim.         *)
(***************************************************************************)
JString(text) == [type |-> "string", text |-> text, entries |-> <<>>]

\* JSON.stringify(value) of an object: a string, whose text writes the
\* entries in insertion order at every level.  The text is kept as the
\* entries it writes, in the order it writes them.
JSONstringify(object) == [type |-> "string", text |-> "json", entries |-> object.entries]

\* typeof resultData === 'string' ? resultData : JSON.stringify(resultData)
outputDataOf(resultData) ==
  IF resultData.type = "string" THEN resultData ELSE JSONstringify(resultData)

JObject(entries) == [type |-> "object", text |-> "", entries |-> entries]

\* The keys used, in lexicographic order.
KeyOrder == <<"a", "b", "c", "d">>

KeyRank(key) == CHOOSE i \in 1..Len(KeyOrder) : KeyOrder[i] = key

RECURSIVE InsertByKey(_, _)
InsertByKey(sorted, entry) ==
  IF sorted = <<>> THEN <<entry>>
  ELSE IF KeyRank(entry.key) < KeyRank(Head(sorted).key)
       THEN <<entry>> \o sorted
       ELSE <<Head(sorted)>> \o InsertByKey(Tail(sorted), entry)

RECURSIVE SortByKey(_)
SortByKey(entries) ==
  IF entries = <<>> THEN <<>>
  ELSE InsertByKey(SortByKey(SubSeq(entries, 1, Len(entries) - 1)),
                   entries[Len(entries)])

RECURSIVE serialize(_)
serialize(payload) ==
  IF payload.type = "string" THEN payload
  ELSE JObject(SortByKey([i \in 1..Len(payload.entries) |->
                           [key |-> payload.entries[i].key,
                            val |-> serialize(payload.entries[i].val)]]))

\* hash(inputData, identifierFromPurchaser) of a structured payload.  The
\* output hash is taken of outputData, which submitResult receives as a
\* string: createMasumiOutputHash(outputData, salt) as it stands.
inputHashOf(payload, salt) == createMasumiInputHash(serialize(payload), salt)

(***************************************************************************)
(* Events                                                                  *)
(***************************************************************************)
Event(name, data) == [name |-> name, data |-> data]

CountEvents(evs, name) == Cardinality({i \in 1..Len(evs) : evs[i].name = name})

\* payment.onChainState && completedStates.includes(payment.onChainState)
IsCompleted(payment) ==
  payment.onChainState # Absent /\ payment.onChainState \in completedStates

\* x || null
OrNull(x) == IF Truthy(x) THEN x ELSE Null

\* previousState !== response.onChainState
StateDiffersAlways(previousState, newState) == TRUE

StateDiffers(previousState, newState) == previousState # newState

\* The specific events after payment:state_changed (payment.ts:172-179).
SpecificEventsForTerminal(response) ==
  IF response.onChainState = "FundsLocked"
  THEN <<Event("payment:funds_locked", response)>>
  ELSE IF IsCompleted(response)
  THEN <<Event("payment:completed", response)>>
  ELSE <<>>

SpecificEvents(response) ==
  IF response.onChainState = "FundsLocked"
  THEN <<Event("payment:funds_locked", response)>>
  ELSE IF response.onChainState = "Withdrawn"
  THEN <<Event("payment:completed", response)>>
  ELSE <<>>

\* The events of checkPaymentStatus once the answer is stored.
StateChangeEvents(blockchainIdentifier, previousState, response) ==
  IF StateDiffers(previousState, response.onChainState)
  THEN <<Event("payment:state_changed",
               [blockchainIdentifier |-> blockchainIdentifier,
                previousState |-> OrNull(previousState),
                newState |-> OrNull(response.onChainState),
                payment |-> response])>>
       \o SpecificEvents(response)
  ELSE <<>>

(***************************************************************************)
(* Remote calls in flight and the record of a step                         *)
(***************************************************************************)
\* The answer slot of a call the remote has not answered yet.
Unserved == [kind |-> "none"]

Ok(entity) == [kind |-> "ok", entity |-> entity]

Fail(error) == [kind |-> "fail", error |-> error]

\* A call awaiting `this.client.post`: the method, who called it (a caller of
\* the API or the monitor's interval callback), the identifier it is about,
\* the request sent, and for the monitor the place of its Map iterator (the
\* number of live entries it has passed).
Call(op, by, id, request, pos) ==
  [op |-> op, by |-> by, id |-> id, request |-> request, pos |-> pos,
   resp |-> Unserved]

\* The calls awaiting their answer once call i has been answered: an
\* answered call is not sent again.
RemoveThenResend(s, i) == SubSeq(s, 1, i - 1) \o SubSeq(s, i + 1, Len(s)) \o <<s[i]>>

Remove(s, i) == SubSeq(s, 1, i - 1) \o SubSeq(s, i + 1, Len(s))

NoRequest == [none |-> TRUE]

\* The body of a request about one payment: { blockchainIdentifier, network }.
IdRequest(blockchainIdentifier) ==
  [blockchainIdentifier |-> blockchainIdentifier, network |-> Network]

\* What a step did: the method, its caller, the identifier, how it ended for
\* the caller ("pending": suspended on the remote call, "returned", "threw"),
\* the value returned or thrown, the request it sent or had sent, and the
\* remote's answer it consumed.  `args` holds the arguments of the call where
\* a property speaks of them.
Step(op, by, id, outcome, value, request, remote) ==
  [op |-> op, by |-> by, id |-> id, outcome |-> outcome, value |-> value,
   request |-> request, remote |-> remote, pos |-> 0, args |-> NoRequest]

WithArgs(step, args) == [step EXCEPT !.args = args]

\* A step of the monitor's callback: also the place of its iterator when the
\* step began.
MonitorStep(op, id, outcome, value, request, remote, pos) ==
  [op |-> op, by |-> "monitor", id |-> id, outcome |-> outcome, value |-> value,
   request |-> request, remote |-> remote, pos |-> pos, args |-> NoRequest]

NoRefresh == [id |-> Absent]

\* The identifiers whose cached state is or has been terminal since they were inserted.
TrackTerminal(ever, m) ==
  {k \in MapKeys(m) : k \in ever \/ IsCompleted(MapGet(m, k))}

\* The run of successful refreshes of one identifier that all returned one
\* state, with no other change of the store in between: the state_changed
\* events of its first refresh, and its length (3 stands for 3 or more).
Refreshed(run, id, response, events) ==
  IF run.id = id /\ run.state = response.onChainState
  THEN [run EXCEPT !.n = IF run.n < 3 THEN run.n + 1 ELSE 3]
  ELSE [id |-> id, state |-> response.onChainState,
        first |-> CountEvents(events, "payment:state_changed"), n |-> 1]

(***************************************************************************)
(* The monitor's loop: `for (const [id, payment] of this.pendingPayments)` *)
(***************************************************************************)
\* The first entry after the first `from - 1` that the loop does not skip, or 0.
NextPoll(m, from) ==
  LET live == {j \in from..Len(m) : ~IsCompleted(m[j].val)}
  IN  IF live = {} THEN 0 ELSE CHOOSE j \in live : \A k \in live : j <= k

\* The loop runs from entry `from` until it suspends on a checkPaymentStatus
\* call or runs off the end of the Map.
LoopRuns(m, from) ==
  LET j == NextPoll(m, from)
  IN  IF j = 0
      THEN [calls |-> <<>>, polled |-> Absent, finished |-> TRUE]
      ELSE [calls |-> <<Call("checkPaymentStatus", "monitor", m[j].key,
                             IdRequest(m[j].key), j)>>,
            polled |-> m[j].key, finished |-> FALSE]

\* The loop after the visit of entry `pos`: the try/catch is inside the loop
\* body, so it goes on to the next entry whether the refresh failed or not.
LoopResumesUnlessFailed(m, pos, failed) ==
  IF failed
  THEN [calls |-> <<>>, polled |-> Absent, finished |-> TRUE]
  ELSE LoopRuns(m, pos + 1)

LoopResumes(m, pos, failed) == LoopRuns(m, pos + 1)

\* An iterator that has passed `pos` live entries of m, after the entries
\* with the keys `gone` are deleted.
PosAfterDelete(m, pos, gone) ==
  pos - Cardinality({i \in 1..pos : i <= Len(m) /\ m[i].key \in gone})

\* No cycle of the monitor has polled an entry.
NoCycle == [seen |-> {}, twice |-> FALSE]

\* No payment:state_changed has been emitted for an identifier.
NoneAnnounced == [last |-> "none", seen |-> {}, repeated |-> FALSE, regressed |-> FALSE]

\* No payment is on its way through the lifecycle.
NoJourney == [stage |-> 0, id |-> Absent, locked |-> 0, hash |-> <<>>, completed |-> 0,
              polled |-> FALSE]

(***************************************************************************)
(* Initial state: `new PaymentManager(config)`.  The configuration and the  *)
(* remote's state are the environment's: each specification sets them.     *)
(***************************************************************************)
\* A remote ledger that holds no payment.
NoLedger == [id \in MonitorIds |-> "none"]

Init ==
  /\ pendingPayments = <<>>
  /\ registeredAgents = <<>>
  /\ statusMonitorInterval = NoTimer
  /\ isMonitoring = FALSE
  /\ activeTimers = {}
  /\ listeners = {}
  /\ inflight = <<>>
  /\ lastOp = Step("new", "caller", Absent, "returned", Absent, NoRequest, Unserved)
  /\ emitted = <<>>
  /\ polled = Absent
  /\ lastRefresh = NoRefresh
  /\ createdWith = [id \in MonitorIds |-> Absent]
  /\ everTerminal = {}
  /\ closed = FALSE
  /\ journey = NoJourney
  /\ announced = [id \in MonitorIds |-> NoneAnnounced]
  /\ cycle = NoCycle

\* What a step that touches neither the timer nor the remote's state leaves alone.
TimerUnchanged == UNCHANGED <<agentIdentifier, registeredAgents, statusMonitorInterval, isMonitoring,
                              activeTimers, listeners, ledger>>

(***************************************************************************)
(* createPaymentRequest                                                    *)
(***************************************************************************)
HourMs == 60 * 60 * 1000

\* Date.prototype.toISOString: the text of a time, kept as the tagged instant
\* (milliseconds) it denotes.
toISOString(ms) == <<"iso", ms>>

\* A record with no field: what `...(x && { x })` spreads when x is missing.
NoFields == [f \in {} |-> Absent]

\* ...(inputHash && { inputHash }), with inputHash of payment.ts:88-91.
InputHashFieldWithData(params) ==
  IF Truthy(params.inputData)
  THEN [inputHash |-> createMasumiInputHash(params.inputData, params.identifierFromPurchaser),
        inputData |-> params.inputData]
  ELSE NoFields

InputHashField(params) ==
  IF Truthy(params.inputData)
  THEN [inputHash |-> createMasumiInputHash(params.inputData, params.identifierFromPurchaser)]
  ELSE NoFields

\* ...(metadata && { metadata })
MetadataField(params) ==
  IF Truthy(params.metadata) THEN [metadata |-> params.metadata] ELSE NoFields

\* A Date parameter is given: a Date is an instant in milliseconds, and a
\* parameter left out is a field the params object does not have.
DateGiven(params, field) == field \in DOMAIN params

\* payByTime || new Date(Date.now() + 12 * 60 * 60 * 1000)
payByAlwaysDefault(params, now) == now + 12 * HourMs

payBy(params, now) ==
  IF DateGiven(params, "payByTime") THEN params.payByTime ELSE now + 12 * HourMs

\* submitResultTime || new Date(Date.now() + 24 * 60 * 60 * 1000)
submitBy(params, now) ==
  IF DateGiven(params, "submitResultTime") THEN params.submitResultTime
  ELSE now + 24 * HourMs

\* The clock: the instants successive reads of Date.now() return, in order.
\* A clock that stands still during a call, and one that ticks between reads.
Steady(t) == <<t, t, t, t>>

Ticking(t) == <<t, t + 1, t + 2, t + 3>>

\* The read of Date.now() that payment.ts:95 makes: the first one of the
\* call when the caller gave payByTime (line 94 reads nothing then).
SubmitByRead(params) == IF DateGiven(params, "payByTime") THEN 1 ELSE 2

\* The payload of POST /payment (payment.ts:85-106).
CreatePayload(params, clock) ==
  [agentIdentifier |-> agentIdentifier,
   network |-> Network,
   paymentType |-> "Web3CardanoV1",
   payByTime |-> toISOString(payBy(params, clock[1])),
   submitResultTime |-> toISOString(submitBy(params, clock[SubmitByRead(params)])),
   identifierFromPurchaser |-> params.identifierFromPurchaser]
  @@ InputHashField(params) @@ MetadataField(params)

\* if (!this.config.agentIdentifier) throw ...
ProvisionedAlways(agent) == TRUE

Provisioned(agent) == Truthy(agent)

\* The call up to `await this.client.post('/payment', payload)`.
CreatePaymentRequest(params, clock) ==
  /\ IF ~Provisioned(agentIdentifier)
     THEN /\ lastOp' = Step("createPaymentRequest", "caller", Absent, "threw",
                            "NotProvisioned", NoRequest, Unserved)
          /\ UNCHANGED inflight
     ELSE /\ inflight' = Append(inflight,
                                Call("createPaymentRequest", "caller", Absent,
                                     CreatePayload(params, clock), 0))
          /\ lastOp' = WithArgs(Step("createPaymentRequest", "caller", Absent, "pending",
                                     Absent, CreatePayload(params, clock), Unserved),
                                [params |-> params, clock |-> clock])
  /\ emitted' = <<>>
  /\ polled' = Absent
  /\ UNCHANGED pendingPayments
  /\ TimerUnchanged

\* The error a rejected `await this.client.post(...)` throws to the caller:
\* no method catches it.
ThrownWrapped(answer) == "TransportError"

Thrown(answer) == answer.error

\* this.pendingPayments.set(response.blockchainIdentifier, response)
CreateStoresByPurchaser(m, response) ==
  MapSet(m, response.identifierFromPurchaser, response)

CreateStores(m, response) == MapSet(m, response.blockchainIdentifier, response)

\* The continuation after the await (payment.ts:116-128), or the rejection.
CreateReturns(i, answer) ==
  LET call == inflight[i]
  IN  /\ call.op = "createPaymentRequest"
      /\ inflight' = Remove(inflight, i)
      /\ IF answer.kind = "ok"
         THEN LET response == answer.entity
              IN  /\ pendingPayments' = CreateStores(pendingPayments, response)
                  /\ emitted' = <<Event("payment:created", response)>>
                  /\ lastOp' = Step("createPaymentRequest", "caller",
                                    response.blockchainIdentifier, "returned",
                                    response, call.request, answer)
         ELSE /\ lastOp' = Step("createPaymentRequest", "caller", Absent, "threw",
                                Thrown(answer), call.request, answer)
              /\ emitted' = <<>>
              /\ UNCHANGED pendingPayments
      /\ polled' = Absent
      /\ TimerUnchanged

(***************************************************************************)
(* checkPaymentStatus                                                      *)
(***************************************************************************)
\* A caller's call up to the await (payment.ts:146-153).
CheckPaymentStatus(blockchainIdentifier) ==
  /\ inflight' = Append(inflight,
                        Call("checkPaymentStatus", "caller", blockchainIdentifier,
                             IdRequest(blockchainIdentifier), 0))
  /\ lastOp' = Step("checkPaymentStatus", "caller", blockchainIdentifier, "pending",
                    Absent, IdRequest(blockchainIdentifier), Unserved)
  /\ emitted' = <<>>
  /\ polled' = Absent
  /\ UNCHANGED pendingPayments
  /\ TimerUnchanged

\* The store when the await of payment.ts:147 rejects: lines 155-159 are not
\* reached.
CheckFailsEvicting(m, blockchainIdentifier) ==
  SelectSeq(m, LAMBDA entry : entry.key # blockchainIdentifier)

CheckFails(m, blockchainIdentifier) == m

\* The store after payment.ts:155-159.
CheckStoresMerging(m, blockchainIdentifier, response) ==
  IF MapHas(m, blockchainIdentifier)
  THEN MapSet(m, blockchainIdentifier,
              [response EXCEPT !.identifierFromPurchaser =
                 IF @ = Absent
                 THEN MapGet(m, blockchainIdentifier).identifierFromPurchaser ELSE @])
  ELSE MapSet(m, blockchainIdentifier, response)

CheckStores(m, blockchainIdentifier, response) == MapSet(m, blockchainIdentifier, response)

\* The events of payment.ts:161-180, given the store before the answer.
CheckEmits(m, blockchainIdentifier, response) ==
  StateChangeEvents(blockchainIdentifier, CachedState(m, blockchainIdentifier), response)

\* The continuation of a caller's checkPaymentStatus, or its rejection.
CheckReturns(i, answer) ==
  LET call == inflight[i]
      id == call.id
  IN  /\ call.op = "checkPaymentStatus"
      /\ call.by = "caller"
      /\ inflight' = Remove(inflight, i)
      /\ IF answer.kind = "ok"
         THEN /\ pendingPayments' = CheckStores(pendingPayments, id, answer.entity)
              /\ emitted' = CheckEmits(pendingPayments, id, answer.entity)
              /\ lastOp' = Step("checkPaymentStatus", "caller", id, "returned",
                                answer.entity, call.request, answer)
         ELSE /\ lastOp' = Step("checkPaymentStatus", "caller", id, "threw",
                                Thrown(answer), call.request, answer)
              /\ emitted' = <<>>
              /\ pendingPayments' = CheckFails(pendingPayments, id)
      /\ polled' = Absent
      /\ TimerUnchanged

(***************************************************************************)
(* submitResult                                                            *)
(***************************************************************************)
\* The request of POST /payment/submit-result (payment.ts:214-226).
SubmitPayload(blockchainIdentifier, outputData, salt) ==
  [blockchainIdentifier |-> blockchainIdentifier,
   network |-> Network,
   resultHash |-> createMasumiOutputHash(outputData, salt)]

\* if (!payment) throw ...
PaymentKnownAlways(m, blockchainIdentifier) == TRUE

PaymentKnown(m, blockchainIdentifier) == MapHas(m, blockchainIdentifier)

\* payment.identifierFromPurchaser of the cached entry.
SaltOf(m, blockchainIdentifier) ==
  IF MapHas(m, blockchainIdentifier)
  THEN MapGet(m, blockchainIdentifier).identifierFromPurchaser
  ELSE Absent

\* The call up to the await (payment.ts:204-226).
SubmitResult(blockchainIdentifier, outputData) ==
  LET salt == SaltOf(pendingPayments, blockchainIdentifier)
  IN  /\ IF ~PaymentKnown(pendingPayments, blockchainIdentifier)
         THEN /\ lastOp' = Step("submitResult", "caller", blockchainIdentifier, "threw",
                                "UnknownPayment", NoRequest, Unserved)
              /\ UNCHANGED inflight
         ELSE /\ inflight' = Append(inflight,
                                    Call("submitResult", "caller", blockchainIdentifier,
                                         SubmitPayload(blockchainIdentifier, outputData, salt),
                                         0))
              /\ lastOp' = Step("submitResult", "caller", blockchainIdentifier, "pending",
                                Absent,
                                SubmitPayload(blockchainIdentifier, outputData, salt),
                                Unserved)
      /\ emitted' = <<>>
      /\ polled' = Absent
      /\ UNCHANGED pendingPayments
      /\ TimerUnchanged

\* this.pendingPayments.set(blockchainIdentifier, response)
SubmitStoresNothing(m, blockchainIdentifier, response) == m

SubmitStores(m, blockchainIdentifier, response) == MapSet(m, blockchainIdentifier, response)

\* The continuation (payment.ts:228-240), or the rejection.  The log line
\* after the store and the emit reads response.NextAction.requestedAction
\* (237): on an answer without NextAction the call rejects with a TypeError,
\* the answer stored and the event emitted.
SubmitReturns(i, answer) ==
  LET call == inflight[i]
      id == call.id
  IN  /\ call.op = "submitResult"
      /\ inflight' = Remove(inflight, i)
      /\ IF answer.kind = "ok"
         THEN /\ pendingPayments' = SubmitStores(pendingPayments, id, answer.entity)
              /\ emitted' = <<Event("payment:result_submitted",
                                    [blockchainIdentifier |-> id,
                                     resultHash |-> call.request.resultHash])>>
              /\ lastOp' = IF HasNextAction(answer.entity)
                           THEN Step("submitResult", "caller", id, "returned",
                                     answer.entity, call.request, answer)
                           ELSE Step("submitResult", "caller", id, "threw",
                                     "TypeError", call.request, answer)
         ELSE /\ lastOp' = Step("submitResult", "caller", id, "threw",
                                Thrown(answer), call.request, answer)
              /\ emitted' = <<>>
              /\ UNCHANGED pendingPayments
      /\ polled' = Absent
      /\ TimerUnchanged

(***************************************************************************)
(* authorizeRefund                                                         *)
(***************************************************************************)
\* The call up to the await (payment.ts:257-263).
AuthorizeRefund(blockchainIdentifier) ==
  /\ inflight' = Append(inflight,
                        Call("authorizeRefund", "caller", blockchainIdentifier,
                             IdRequest(blockchainIdentifier), 0))
  /\ lastOp' = Step("authorizeRefund", "caller", blockchainIdentifier, "pending",
                    Absent, IdRequest(blockchainIdentifier), Unserved)
  /\ emitted' = <<>>
  /\ polled' = Absent
  /\ UNCHANGED pendingPayments
  /\ TimerUnchanged

\* this.pendingPayments.set(blockchainIdentifier, response)
RefundStoresNothing(m, blockchainIdentifier, response) == m

RefundStoresOnlyKnown(m, blockchainIdentifier, response) ==
  IF MapHas(m, blockchainIdentifier) THEN MapSet(m, blockchainIdentifier, response) ELSE m

RefundStores(m, blockchainIdentifier, response) == MapSet(m, blockchainIdentifier, response)

\* The continuation (payment.ts:265-273), or the rejection.
RefundReturns(i, answer) ==
  LET call == inflight[i]
      id == call.id
  IN  /\ call.op = "authorizeRefund"
      /\ inflight' = Remove(inflight, i)
      /\ IF answer.kind = "ok"
         THEN /\ pendingPayments' = RefundStores(pendingPayments, id, answer.entity)
              /\ emitted' = <<Event("payment:refund_authorized",
                                    [blockchainIdentifier |-> id])>>
              /\ lastOp' = Step("authorizeRefund", "caller", id, "returned",
                                answer.entity, call.request, answer)
         ELSE /\ lastOp' = Step("authorizeRefund", "caller", id, "threw",
                                Thrown(answer), call.request, answer)
              /\ emitted' = <<>>
              /\ UNCHANGED pendingPayments
      /\ polled' = Absent
      /\ TimerUnchanged

(***************************************************************************)
(* listPayments                                                            *)
(***************************************************************************)
\* String(n): the decimal text of a number, kept as the tagged number.
String(n) == <<"String", n>>

\* The query of GET /payment (payment.ts:328-339).  `options` holds the
\* fields the caller gave.
ListQuery(options) ==
  [network |-> Network,
   limit |-> String(IF "limit" \in DOMAIN options /\ options.limit # 0
                    THEN options.limit ELSE 10)]
  @@ (IF "cursorId" \in DOMAIN options /\ Truthy(options.cursorId)
      THEN [cursorId |-> options.cursorId] ELSE NoFields)
  @@ (IF "filterSmartContractAddress" \in DOMAIN options
         /\ Truthy(options.filterSmartContractAddress)
      THEN [filterSmartContractAddress |-> options.filterSmartContractAddress]
      ELSE NoFields)

\* The call up to `await this.client.get('/payment', params)`.
ListPayments(options) ==
  /\ inflight' = Append(inflight, Call("listPayments", "caller", Absent,
                                       ListQuery(options), 0))
  /\ lastOp' = Step("listPayments", "caller", Absent, "pending", Absent,
                    ListQuery(options), Unserved)
  /\ emitted' = <<>>
  /\ polled' = Absent
  /\ UNCHANGED pendingPayments
  /\ TimerUnchanged

\* { payments: response.data || [], nextCursorId: response.nextCursorId }
ListResult(response) ==
  [payments |-> IF "data" \in DOMAIN response THEN response.data ELSE <<>>,
   nextCursorId |-> response.nextCursorId]

\* The store with the listed payments cached under their identifiers.
RECURSIVE WithListed(_, _)
WithListed(m, payments) ==
  IF payments = <<>> THEN m
  ELSE WithListed(MapSet(m, Head(payments).blockchainIdentifier, Head(payments)),
                  Tail(payments))

\* listPayments as it would be if it cached what it lists.
ListReturnsCaching(i, answer) ==
  LET call == inflight[i]
  IN  /\ call.op = "listPayments"
      /\ inflight' = Remove(inflight, i)
      /\ IF answer.kind = "ok"
         THEN /\ lastOp' = Step("listPayments", "caller", Absent, "returned",
                                ListResult(answer.entity), call.request, answer)
              /\ pendingPayments' = WithListed(pendingPayments,
                                               ListResult(answer.entity).payments)
         ELSE /\ lastOp' = Step("listPayments", "caller", Absent, "threw",
                                Thrown(answer), call.request, answer)
              /\ UNCHANGED pendingPayments
      /\ emitted' = <<>>
      /\ polled' = Absent
      /\ TimerUnchanged

\* The continuation (payment.ts:346-349), or the rejection.
ListReturns(i, answer) ==
  LET call == inflight[i]
  IN  /\ call.op = "listPayments"
      /\ inflight' = Remove(inflight, i)
      /\ lastOp' = IF answer.kind = "ok"
                   THEN Step("listPayments", "caller", Absent, "returned",
                             ListResult(answer.entity), call.request, answer)
                   ELSE Step("listPayments", "caller", Absent, "threw",
                             Thrown(answer), call.request, answer)
      /\ emitted' = <<>>
      /\ polled' = Absent
      /\ UNCHANGED pendingPayments
      /\ TimerUnchanged

(***************************************************************************)
(* The status monitor                                                      *)
(***************************************************************************)
\* clearInterval(handle): the interval is no longer active.
ClearIntervalForgotten(timers, handle) == timers

ClearInterval(timers, handle) == timers \ {handle}

\* this.on(event, listener) of the EventEmitter the manager extends.
On(listener) ==
  /\ listeners' = listeners \cup {listener}
  /\ lastOp' = Step("on", "caller", Absent, "returned", Absent, NoRequest, Unserved)
  /\ emitted' = <<>>
  /\ polled' = Absent
  /\ UNCHANGED <<agentIdentifier, registeredAgents, pendingPayments, statusMonitorInterval, isMonitoring,
                 activeTimers, inflight, ledger>>

\* The emits that reach a listener: emit calls the listeners registered at
\* that moment, and none when there is none.
Delivered(evs, registered) == IF registered = {} THEN <<>> ELSE evs

\* The store a listener reads with getPayment while an event of a step is
\* delivered to it, given the store before and after the step: every method
\* stores the response before its first emit (payment.ts:117 and 120, 159
\* and 170-177, 229 and 232, 266 and 269), and emit runs the listeners before
\* it returns.
StoreAtEmitBeforeSet(before, after) == before

StoreAtEmit(before, after) == after

\* The handle setInterval returns: a timer object distinct from every interval
\* still set and from the handle the manager held before.
NewTimer(timers, held) ==
  CHOOSE t \in 1..(Cardinality(timers) + 2) :
    /\ t \notin timers \cup {held}
    /\ \A u \in 1..(t - 1) : u \in timers \cup {held}

\* if (this.isMonitoring) { warn; return; }
AlreadyMonitoringNever(monitoring) == FALSE

AlreadyMonitoring(monitoring) == monitoring

\* startStatusMonitoring (payment.ts:376-406).
StartStatusMonitoring ==
  /\ IF AlreadyMonitoring(isMonitoring)
     THEN /\ lastOp' = Step("startStatusMonitoring", "caller", Absent, "returned",
                            "already running", NoRequest, Unserved)
          /\ UNCHANGED <<statusMonitorInterval, isMonitoring, activeTimers>>
     ELSE /\ activeTimers' = ClearInterval(activeTimers, statusMonitorInterval)
                               \cup {NewTimer(activeTimers, statusMonitorInterval)}
          /\ statusMonitorInterval' = NewTimer(activeTimers, statusMonitorInterval)
          /\ isMonitoring' = TRUE
          /\ lastOp' = Step("startStatusMonitoring", "caller", Absent, "returned",
                            "started", NoRequest, Unserved)
  /\ emitted' = <<>>
  /\ polled' = Absent
  /\ UNCHANGED <<agentIdentifier, registeredAgents, pendingPayments, inflight, listeners, ledger>>

\* stopStatusMonitoring (payment.ts:411-418).
StopStatusMonitoring ==
  /\ IF statusMonitorInterval # NoTimer
     THEN /\ activeTimers' = ClearInterval(activeTimers, statusMonitorInterval)
          /\ statusMonitorInterval' = NoTimer
          /\ isMonitoring' = FALSE
          /\ lastOp' = Step("stopStatusMonitoring", "caller", Absent, "returned",
                            "stopped", NoRequest, Unserved)
     ELSE /\ lastOp' = Step("stopStatusMonitoring", "caller", Absent, "returned",
                            "not running", NoRequest, Unserved)
          /\ UNCHANGED <<statusMonitorInterval, isMonitoring, activeTimers>>
  /\ emitted' = <<>>
  /\ polled' = Absent
  /\ UNCHANGED <<agentIdentifier, registeredAgents, pendingPayments, inflight, listeners, ledger>>

\* A cycle whose checkPaymentStatus has returned waits for its loop to
\* resume: the resumption is a microtask, and no timer callback runs before
\* the queued microtasks have run.
ResumptionPending == \E k \in 1..Len(inflight) : inflight[k].op = "monitorResumes"

\* An active interval fires: the callback runs its loop from the first entry
\* (payment.ts:388-403) until it suspends or ends.
IntervalFires ==
  LET run == LoopRuns(pendingPayments, 1)
  IN  /\ activeTimers # {}
      /\ ~ResumptionPending
      /\ inflight' = inflight \o run.calls
      /\ polled' = run.polled
      /\ lastOp' = MonitorStep("interval", run.polled,
                               IF run.finished THEN "returned" ELSE "pending",
                               Absent, NoRequest, Unserved, 0)
      /\ emitted' = <<>>
      /\ UNCHANGED pendingPayments
      /\ TimerUnchanged

\* The answer to the monitor's checkPaymentStatus arrives.  On an entity the
\* continuation of checkPaymentStatus runs (payment.ts:155-183: the store
\* is set, the events are emitted) and the cycle waits for its loop to
\* resume after `await this.checkPaymentStatus(id)` (397), in a later
\* microtask.  On a failure checkPaymentStatus does nothing more, and the
\* step is the catch block of the loop (398-401), then the loop goes on.
MonitorCheckReturns(i, answer) ==
  LET call == inflight[i]
      id == call.id
      run == LoopResumes(pendingPayments', call.pos, TRUE)
  IN  /\ call.op = "checkPaymentStatus"
      /\ call.by = "monitor"
      /\ IF answer.kind = "ok"
         THEN /\ pendingPayments' = CheckStores(pendingPayments, id, answer.entity)
              /\ emitted' = CheckEmits(pendingPayments, id, answer.entity)
              /\ lastOp' = MonitorStep("checkPaymentStatus", id, "returned",
                                       answer.entity, call.request, answer, call.pos)
              /\ inflight' = [inflight EXCEPT ![i].op = "monitorResumes"]
              /\ polled' = Absent
         ELSE /\ emitted' = <<Event("payment:monitor_error",
                                    [id |-> id, error |-> answer.error])>>
              /\ lastOp' = MonitorStep("checkPaymentStatus", id, "threw",
                                       answer.error, call.request, answer, call.pos)
              /\ pendingPayments' = CheckFails(pendingPayments, id)
              /\ inflight' = Remove(inflight, i) \o run.calls
              /\ polled' = run.polled
      /\ TimerUnchanged

\* The loop of a cycle resumes after the checkPaymentStatus that returned
\* (payment.ts:390-397): it goes on from the next entry of the Map as it is
\* now, until it suspends on the next call or runs off the end.
MonitorResumes(i) ==
  LET call == inflight[i]
      run == LoopResumes(pendingPayments, call.pos, FALSE)
  IN  /\ call.op = "monitorResumes"
      /\ inflight' = Remove(inflight, i) \o run.calls
      /\ polled' = run.polled
      /\ lastOp' = MonitorStep("monitorResumes", call.id,
                               IF run.finished THEN "returned" ELSE "pending",
                               Absent, NoRequest, Unserved, call.pos)
      /\ emitted' = <<>>
      /\ UNCHANGED pendingPayments
      /\ TimerUnchanged

(***************************************************************************)
(* cleanupCompletedPayments and close                                      *)
(***************************************************************************)
\* getPayment (payment.ts:435-437).
getPayment(m, blockchainIdentifier) == MapGet(m, blockchainIdentifier)

\* The keys cleanupCompletedPayments deletes (payment.ts:450-455).
CompletedKeysOnlyWithdrawn(m) ==
  {k \in MapKeys(m) : MapGet(m, k).onChainState = "Withdrawn"}

CompletedKeys(m) == {k \in MapKeys(m) : IsCompleted(MapGet(m, k))}

\* The Map without the entries of the keys `gone`, the others in their order.
MapWithout(m, gone) ==
  LET keep == {i \in 1..Len(m) : m[i].key \notin gone}
      F[n \in 0..Len(m)] ==
        IF n = 0 THEN <<>>
        ELSE IF n \in keep THEN Append(F[n - 1], m[n]) ELSE F[n - 1]
  IN  F[Len(m)]

\* The iterators of the monitor cycles under way, after a deletion.
IteratorsAfterDelete(calls, m, gone) ==
  [i \in 1..Len(calls) |->
     IF calls[i].by = "monitor"
     THEN [calls[i] EXCEPT !.pos = PosAfterDelete(m, calls[i].pos, gone)]
     ELSE calls[i]]

\* cleanupCompletedPayments (payment.ts:446-462).
CleanupCompletedPayments ==
  LET gone == CompletedKeys(pendingPayments)
  IN  /\ pendingPayments' = MapWithout(pendingPayments, gone)
      /\ inflight' = IteratorsAfterDelete(inflight, pendingPayments, gone)
      /\ lastOp' = Step("cleanupCompletedPayments", "caller", Absent, "returned",
                        Cardinality(gone), NoRequest, Unserved)
      /\ emitted' = <<>>
      /\ polled' = Absent
      /\ TimerUnchanged

\* close (payment.ts:469-474): stopStatusMonitoring, then the Map is cleared
\* and the listeners are removed.
Close ==
  /\ IF statusMonitorInterval # NoTimer
     THEN /\ activeTimers' = ClearInterval(activeTimers, statusMonitorInterval)
          /\ statusMonitorInterval' = NoTimer
          /\ isMonitoring' = FALSE
     ELSE UNCHANGED <<statusMonitorInterval, isMonitoring, activeTimers>>
  /\ pendingPayments' = <<>>
  /\ listeners' = {}
  /\ inflight' = IteratorsAfterDelete(inflight, pendingPayments, MapKeys(pendingPayments))
  /\ lastOp' = Step("close", "caller", Absent, "returned", Absent, NoRequest, Unserved)
  /\ emitted' = <<>>
  /\ polled' = Absent
  /\ UNCHANGED <<agentIdentifier, registeredAgents, ledger>>

(***************************************************************************)
(* RegistryManager (src/src/managers/registry.ts): the cache of agents and *)
(* the remote calls of register / get / search / update.  Every method     *)
(* wraps its body in try/catch: the catch block emits registry:error and   *)
(* rethrows.                                                               *)
(***************************************************************************)
\* The agents the registry knows and the states it reports them in.
AgentIds == {"a1"}

\* The four operations of RegistryManager that talk to the registry service.
RegistryOps == {"registerAgent", "getAgent", "searchAgents", "updateAgent"}

AgentStates == {"Active", "Inactive"}

\* A RegisteredAgent as the registry returns it.
Agent(agentId, state) == [agentIdentifier |-> agentId, state |-> state]

\* this.registeredAgents.get(params.agentIdentifier) as updateAgent keeps it
\* in previousAgent across its await: no agent, or the one cached.
previousAgentOf(m, agentId) == IF MapHas(m, agentId) THEN <<MapGet(m, agentId)>> ELSE <<>>

\* A call of the registry awaiting this.client: as a call of the payment
\* manager, with the previousAgent the method holds.
RegistryCall(op, by, id, request, previousAgent) ==
  Call(op, by, id, request, 0) @@ [previousAgent |-> previousAgent]

\* What a method of the registry leaves alone.
RegistryUnchanged ==
  UNCHANGED <<agentIdentifier, pendingPayments, statusMonitorInterval, isMonitoring,
              activeTimers, listeners, ledger>>

\* The catch block: this.emit('registry:error', error as Error).
RegistryErrorEventsNone(error) == <<>>

RegistryErrorEvents(error) == <<Event("registry:error", [message |-> error])>>

\* The store when the await rejects: the catch block does not touch it.
RegistryCatches(m) == m

\* The body of an answer of the registry service: { data }.
Body(data) == [data |-> data]

\* response.data: undefined when the body came without it.
DataOf(response) == IF "data" \in DOMAIN response THEN response.data ELSE Absent

\* The await returned and `agent.agentIdentifier` can be read: with
\* response.data undefined the read throws a TypeError inside the try.
AgentReturned(answer) == answer.kind = "ok" /\ "data" \in DOMAIN answer.entity

\* What the catch block of a method catches: the error of the rejected
\* call, or the TypeError of the continuation.
RegistryThrown(answer) == IF answer.kind = "fail" THEN answer.error ELSE "TypeError"

\* registerAgent up to the await (registry.ts:201-203).
RegisterAgent(params) ==
  /\ inflight' = Append(inflight, RegistryCall("registerAgent", "caller", Absent, params, <<>>))
  /\ lastOp' = Step("registerAgent", "caller", Absent, "pending", Absent, params, Unserved)
  /\ emitted' = <<>>
  /\ polled' = Absent
  /\ UNCHANGED registeredAgents
  /\ RegistryUnchanged

\* The continuation (registry.ts:205-213), or the catch block (214-217).
RegisterReturns(i, answer) ==
  LET call == inflight[i]
  IN  /\ call.op = "registerAgent"
      /\ call.by = "caller"
      /\ inflight' = Remove(inflight, i)
      /\ IF AgentReturned(answer)
         THEN LET agent == answer.entity.data
              IN  /\ registeredAgents' = MapSet(registeredAgents, agent.agentIdentifier, agent)
                  /\ emitted' = <<Event("agent:registered", agent)>>
                  /\ lastOp' = Step("registerAgent", "caller", agent.agentIdentifier,
                                    "returned", agent, call.request, answer)
         ELSE /\ registeredAgents' = RegistryCatches(registeredAgents)
              /\ emitted' = RegistryErrorEvents(RegistryThrown(answer))
              /\ lastOp' = Step("registerAgent", "caller", Absent, "threw",
                                RegistryThrown(answer), call.request, answer)
      /\ polled' = Absent
      /\ RegistryUnchanged

\* getAgent up to the await (registry.ts:233-238).
GetAgent(agentId, network) ==
  /\ inflight' = Append(inflight,
                        RegistryCall("getAgent", "caller", agentId,
                                     [agentIdentifier |-> agentId, network |-> network],
                                     <<>>))
  /\ lastOp' = Step("getAgent", "caller", agentId, "pending", Absent,
                    [agentIdentifier |-> agentId, network |-> network], Unserved)
  /\ emitted' = <<>>
  /\ polled' = Absent
  /\ UNCHANGED registeredAgents
  /\ RegistryUnchanged

\* The continuation (registry.ts:240-245), or the catch block (246-249).
GetAgentReturns(i, answer) ==
  LET call == inflight[i]
  IN  /\ call.op = "getAgent"
      /\ call.by = "caller"
      /\ inflight' = Remove(inflight, i)
      /\ IF AgentReturned(answer)
         THEN LET agent == answer.entity.data
              IN  /\ registeredAgents' = MapSet(registeredAgents, agent.agentIdentifier, agent)
                  /\ emitted' = <<>>
                  /\ lastOp' = Step("getAgent", "caller", call.id, "returned", agent,
                                    call.request, answer)
         ELSE /\ registeredAgents' = RegistryCatches(registeredAgents)
              /\ emitted' = RegistryErrorEvents(RegistryThrown(answer))
              /\ lastOp' = Step("getAgent", "caller", call.id, "threw", RegistryThrown(answer),
                                call.request, answer)
      /\ polled' = Absent
      /\ RegistryUnchanged

\* The fields among `fields` that `given` has with a truthy text: what
\* `if (x.f) q.f = x.f` and `...(x.f && { f: x.f })` copy.
TextFields(given, fields) ==
  [f \in {g \in fields \cap DOMAIN given : Truthy(given[g])} |-> given[f]]

\* The fields among `fields` that `given` has with an object or a list,
\* which are truthy whatever they hold.
ObjectFields(given, fields) == [f \in fields \cap DOMAIN given |-> given[f]]

\* tags.join(','): the text of the list, kept as the tagged list.
Join(tags) == <<"join", tags>>

\* queryParams of searchAgents (registry.ts:275-283): a field for every
\* option that is given and truthy.
SearchQuery(options) ==
  TextFields(options, {"network", "capability", "pricingType", "state"})
  @@ (IF "limit" \in DOMAIN options /\ options.limit # 0
      THEN [limit |-> String(options.limit)] ELSE NoFields)
  @@ (IF "offset" \in DOMAIN options /\ options.offset # 0
      THEN [offset |-> String(options.offset)] ELSE NoFields)
  @@ (IF "tags" \in DOMAIN options THEN [tags |-> Join(options.tags)] ELSE NoFields)

\* searchAgents up to the await (registry.ts:273-288).
SearchAgents(options) ==
  /\ inflight' = Append(inflight,
                        RegistryCall("searchAgents", "caller", Absent,
                                     SearchQuery(options), <<>>))
  /\ lastOp' = Step("searchAgents", "caller", Absent, "pending", Absent,
                    SearchQuery(options), Unserved)
  /\ emitted' = <<>>
  /\ polled' = Absent
  /\ UNCHANGED registeredAgents
  /\ RegistryUnchanged

\* The continuation (registry.ts:290), or the catch block (291-294).
SearchReturns(i, answer) ==
  LET call == inflight[i]
  IN  /\ call.op = "searchAgents"
      /\ call.by = "caller"
      /\ inflight' = Remove(inflight, i)
      /\ IF answer.kind = "ok"
         THEN /\ UNCHANGED registeredAgents
              /\ emitted' = <<>>
              /\ lastOp' = Step("searchAgents", "caller", Absent, "returned",
                                DataOf(answer.entity), call.request, answer)
         ELSE /\ registeredAgents' = RegistryCatches(registeredAgents)
              /\ emitted' = RegistryErrorEvents(RegistryThrown(answer))
              /\ lastOp' = Step("searchAgents", "caller", Absent, "threw", RegistryThrown(answer),
                                call.request, answer)
      /\ polled' = Absent
      /\ RegistryUnchanged

\* clearCache (registry.ts:417-419): this.registeredAgents.clear().  A call
\* in flight keeps the previousAgent it read before its await.
ClearCache ==
  /\ registeredAgents' = <<>>
  /\ lastOp' = Step("clearCache", "caller", Absent, "returned", Absent, NoRequest, Unserved)
  /\ emitted' = <<>>
  /\ polled' = Absent
  /\ UNCHANGED inflight
  /\ RegistryUnchanged

\* close (registry.ts:424-427): clearCache, then removeAllListeners.  The
\* calls in flight stay in flight, and the manager keeps accepting calls.
RegistryClose ==
  /\ registeredAgents' = <<>>
  /\ listeners' = {}
  /\ lastOp' = Step("close", "caller", Absent, "returned", Absent, NoRequest, Unserved)
  /\ emitted' = <<>>
  /\ polled' = Absent
  /\ UNCHANGED <<agentIdentifier, pendingPayments, statusMonitorInterval, isMonitoring,
                 activeTimers, inflight, ledger>>

\* The body of PATCH /registry/:id (registry.ts:340-349): the network and
\* the fields the caller gave.
UpdateBody(params) ==
  [network |-> params.network]
  @@ TextFields(params, {"description", "apiBaseUrl", "state"})
  @@ ObjectFields(params, {"Capability", "Pricing", "tags", "metadata"})

\* updateAgent up to the await (registry.ts:334-350): previousAgent is read
\* before the request is sent.
UpdateAgent(params) ==
  /\ inflight' = Append(inflight,
                        RegistryCall("updateAgent", "caller", params.agentIdentifier,
                                     UpdateBody(params),
                                     previousAgentOf(registeredAgents,
                                                     params.agentIdentifier)))
  /\ lastOp' = Step("updateAgent", "caller", params.agentIdentifier, "pending", Absent,
                    UpdateBody(params), Unserved)
  /\ emitted' = <<>>
  /\ polled' = Absent
  /\ UNCHANGED registeredAgents
  /\ RegistryUnchanged

\* if (previousAgent && previousAgent.state !== agent.state) emit agent:state_changed
AgentStateEvents(previousAgent, agent) ==
  IF previousAgent # <<>> /\ previousAgent[1].state # agent.state
  THEN <<Event("agent:state_changed",
               [agentIdentifier |-> agent.agentIdentifier,
                previousState |-> previousAgent[1].state,
                newState |-> agent.state])>>
  ELSE <<>>

\* The continuation (registry.ts:352-367), or the catch block (368-371).
UpdateReturns(i, answer) ==
  LET call == inflight[i]
  IN  /\ call.op = "updateAgent"
      /\ call.by = "caller"
      /\ inflight' = Remove(inflight, i)
      /\ IF AgentReturned(answer)
         THEN LET agent == answer.entity.data
              IN  /\ registeredAgents' = MapSet(registeredAgents, agent.agentIdentifier, agent)
                  /\ emitted' = <<Event("agent:updated", agent)>>
                                \o AgentStateEvents(call.previousAgent, agent)
                  /\ lastOp' = Step("updateAgent", "caller", call.id, "returned", agent,
                                    call.request, answer)
         ELSE /\ registeredAgents' = RegistryCatches(registeredAgents)
              /\ emitted' = RegistryErrorEvents(RegistryThrown(answer))
              /\ lastOp' = Step("updateAgent", "caller", call.id, "threw", RegistryThrown(answer),
                                call.request, answer)
      /\ polled' = Absent
      /\ RegistryUnchanged

(***************************************************************************)
(* The tools (src/src/tools/index.ts).  Every tool call builds a manager   *)
(* of its own with `new PaymentManager(config)`, uses it for one operation *)
(* and closes it; pendingPayments is the store of the manager of the tool  *)
(* step under way.  A tool catches what the manager throws and returns     *)
(* { success: false, error }.                                              *)
(***************************************************************************)
\* this.pendingPayments of a manager just constructed.
NewStore == <<>>

ToolFailureAsSuccess(error, message) == [success |-> TRUE, error |-> error, message |-> message]

\* What a tool returns from its catch block.
ToolFailure(error, message) == [success |-> FALSE, error |-> error, message |-> message]

\* payment.onChainState || fallback
StateOr(payment, fallback) ==
  IF Truthy(payment.onChainState) THEN payment.onChainState ELSE fallback

ToolUnchanged ==
  UNCHANGED <<agentIdentifier, registeredAgents, statusMonitorInterval, isMonitoring, activeTimers,
              listeners, ledger>>

\* { task: params.taskDescription }, kept as one text as the other payloads are.
TaskPayload(taskDescription) ==
  CASE taskDescription = "task1" -> "{task:task1}"

\* params.payByHours ? ... : undefined (index.ts:122, 125): a number of
\* hours that is given and is not 0.
HoursGiven(params, field) == field \in DOMAIN params /\ params[field] # 0

\* The reads of Date.now() the tool makes before it calls the manager: one
\* for each number of hours given (index.ts:123, 126).
ToolReads(params) ==
  (IF HoursGiven(params, "payByHours") THEN 1 ELSE 0)
  + (IF HoursGiven(params, "submitResultHours") THEN 1 ELSE 0)

\* The argument of manager.createPaymentRequest (index.ts:119-129).
CreateArguments(params, clock) ==
  [identifierFromPurchaser |-> params.buyerIdentifier,
   inputData |-> IF Truthy(params.inputData) THEN params.inputData
                 ELSE TaskPayload(params.taskDescription),
   metadata |-> params.metadata]
  @@ (IF HoursGiven(params, "payByHours")
      THEN [payByTime |-> clock[1] + params.payByHours * HourMs] ELSE NoFields)
  @@ (IF HoursGiven(params, "submitResultHours")
      THEN [submitResultTime |->
              clock[ToolReads(params)] + params.submitResultHours * HourMs]
      ELSE NoFields)

\* masumi_create_payment up to the manager's remote call (index.ts:98-129).
MasumiCreatePayment(toolParams, clock) ==
  LET params == CreateArguments(toolParams, clock)
      payload == CreatePayload(params, SubSeq(clock, ToolReads(toolParams) + 1, Len(clock)))
  IN
  /\ IF ~Provisioned(agentIdentifier)
     THEN /\ lastOp' = Step("masumi_create_payment", "tool", Absent, "returned",
                            [success |-> FALSE, error |-> "Agent not provisioned",
                             message |-> "Run masumi_enable first to provision your agent"],
                            NoRequest, Unserved)
          /\ UNCHANGED <<inflight, pendingPayments>>
     ELSE /\ pendingPayments' = NewStore
          /\ inflight' = Append(inflight,
                                Call("createPaymentRequest", "tool", Absent,
                                     payload, 0))
          /\ lastOp' = Step("masumi_create_payment", "tool", Absent, "pending", Absent,
                            payload, Unserved)
  /\ emitted' = <<>>
  /\ polled' = Absent
  /\ ToolUnchanged

\* The manager's continuation, manager.close() and the return (index.ts:119-149).
MasumiCreateReturns(i, answer) ==
  LET call == inflight[i]
  IN  /\ call.op = "createPaymentRequest"
      /\ call.by = "tool"
      /\ inflight' = Remove(inflight, i)
      /\ IF answer.kind = "ok"
         THEN LET payment == answer.entity
              IN  /\ emitted' = <<Event("payment:created", payment)>>
                  /\ lastOp' = Step("masumi_create_payment", "tool",
                                    payment.blockchainIdentifier, "returned",
                                    IF HasNextAction(payment)
                                    THEN [success |-> TRUE,
                                          blockchainIdentifier |-> payment.blockchainIdentifier,
                                          payByTime |-> payment.payByTime,
                                          submitResultTime |-> payment.submitResultTime,
                                          state |-> StateOr(payment, "Pending")]
                                    ELSE ToolFailure("TypeError",
                                                     "Failed to create payment request"),
                                    call.request, answer)
         ELSE /\ emitted' = <<>>
              /\ lastOp' = Step("masumi_create_payment", "tool", Absent, "returned",
                                ToolFailure(Thrown(answer), "Failed to create payment request"),
                                call.request, answer)
      /\ pendingPayments' = <<>>
      /\ polled' = Absent
      /\ ToolUnchanged

\* masumi_check_payment up to the manager's remote call (index.ts:160-167).
MasumiCheckPayment(blockchainIdentifier) ==
  /\ pendingPayments' = NewStore
  /\ inflight' = Append(inflight,
                        Call("checkPaymentStatus", "tool", blockchainIdentifier,
                             IdRequest(blockchainIdentifier), 0))
  /\ lastOp' = Step("masumi_check_payment", "tool", blockchainIdentifier, "pending",
                    Absent, IdRequest(blockchainIdentifier), Unserved)
  /\ emitted' = <<>>
  /\ polled' = Absent
  /\ ToolUnchanged

\* The manager's continuation on its own store, manager.close() and the
\* return (index.ts:167-186).
MasumiCheckReturns(i, answer) ==
  LET call == inflight[i]
      id == call.id
  IN  /\ call.op = "checkPaymentStatus"
      /\ call.by = "tool"
      /\ inflight' = Remove(inflight, i)
      /\ IF answer.kind = "ok"
         THEN /\ emitted' = CheckEmits(NewStore, id, answer.entity)
              /\ lastOp' = Step("masumi_check_payment", "tool", id, "returned",
                                IF HasNextAction(answer.entity)
                                THEN [success |-> TRUE,
                                      blockchainIdentifier |->
                                        answer.entity.blockchainIdentifier,
                                      state |-> StateOr(answer.entity, "Pending"),
                                      payByTime |-> answer.entity.payByTime,
                                      submitResultTime |-> answer.entity.submitResultTime]
                                ELSE ToolFailure("TypeError",
                                                 "Failed to check payment status"),
                                call.request, answer)
         ELSE /\ emitted' = <<>>
              /\ lastOp' = Step("masumi_check_payment", "tool", id, "returned",
                                ToolFailure(Thrown(answer), "Failed to check payment status"),
                                call.request, answer)
      /\ pendingPayments' = <<>>
      /\ polled' = Absent
      /\ ToolUnchanged

\* masumi_complete_payment (index.ts:197-227): the result data as a string
\* (206-209), then submitResult on the store of the manager just
\* constructed.
MasumiCompletePayment(blockchainIdentifier, resultData) ==
  LET outputData == outputDataOf(resultData) IN
  /\ IF ~PaymentKnown(NewStore, blockchainIdentifier)
     THEN /\ lastOp' = Step("masumi_complete_payment", "tool", blockchainIdentifier,
                            "returned",
                            ToolFailure("UnknownPayment", "Failed to submit work result"),
                            NoRequest, Unserved)
          /\ UNCHANGED inflight
     ELSE /\ inflight' = Append(inflight,
                                Call("submitResult", "tool", blockchainIdentifier,
                                     SubmitPayload(blockchainIdentifier, outputData,
                                                   SaltOf(NewStore, blockchainIdentifier)),
                                     0))
          /\ lastOp' = Step("masumi_complete_payment", "tool", blockchainIdentifier,
                            "pending", Absent,
                            SubmitPayload(blockchainIdentifier, outputData,
                                          SaltOf(NewStore, blockchainIdentifier)),
                            Unserved)
  /\ pendingPayments' = NewStore
  /\ emitted' = <<>>
  /\ polled' = Absent
  /\ ToolUnchanged

\* The options masumi_search_agents passes to registry.searchAgents
\* (index.ts:323-330): the configured network, the filters given,
\* params.limit || 10 and the state Active.
SearchToolOptions(params) ==
  [network |-> Network,
   limit |-> IF "limit" \in DOMAIN params /\ params.limit # 0 THEN params.limit ELSE 10,
   state |-> "Active"]
  @@ TextFields(params, {"capability", "pricingType"})
  @@ ObjectFields(params, {"tags"})

\* agents.map(a => ({ ..., capability: a.Capability.name,
\* pricingType: a.Pricing.pricingType, ... })) (index.ts:336-343) reads a
\* field of a.Capability and a field of a.Pricing: it throws a TypeError for
\* an agent that came without either, and when `agents` is undefined.
ListedAgents(agents) ==
  [k \in 1..Len(agents) |->
     [agentIdentifier |-> agents[k].agentIdentifier,
      capability |-> agents[k].Capability.name,
      pricingType |-> agents[k].Pricing.pricingType]]

MapThrows(agents) ==
  \/ agents = Absent
  \/ \E k \in 1..Len(agents) : {"Capability", "Pricing"} \ DOMAIN agents[k] # {}

\* masumi_search_agents up to the remote call of searchAgents on a
\* RegistryManager of its own (index.ts:309-330).  registeredAgents is the
\* cache of the long-lived manager, which the tool never sees.
MasumiSearchAgents(params) ==
  LET query == SearchQuery(SearchToolOptions(params)) IN
  /\ inflight' = Append(inflight, RegistryCall("searchAgents", "tool", Absent, query, <<>>))
  /\ lastOp' = Step("masumi_search_agents", "tool", Absent, "pending", Absent, query,
                    Unserved)
  /\ emitted' = <<>>
  /\ polled' = Absent
  /\ UNCHANGED pendingPayments
  /\ ToolUnchanged

\* The continuation of searchAgents, registry.close() and the return, or
\* the catch block of the manager and that of the tool (index.ts:323-353).
MasumiSearchReturns(i, answer) ==
  LET call == inflight[i]
  IN  /\ call.op = "searchAgents"
      /\ call.by = "tool"
      /\ inflight' = Remove(inflight, i)
      /\ IF answer.kind = "ok"
         THEN /\ emitted' = <<>>
              /\ lastOp' = Step("masumi_search_agents", "tool", Absent, "returned",
                                IF MapThrows(DataOf(answer.entity))
                                THEN ToolFailure("TypeError", "Failed to search agents")
                                ELSE [success |-> TRUE,
                                      agents |-> ListedAgents(DataOf(answer.entity)),
                                      count |-> Len(DataOf(answer.entity))],
                                call.request, answer)
         ELSE /\ emitted' = RegistryErrorEvents(answer.error)
              /\ lastOp' = Step("masumi_search_agents", "tool", Absent, "returned",
                                ToolFailure(Thrown(answer), "Failed to search agents"),
                                call.request, answer)
      /\ polled' = Absent
      /\ UNCHANGED pendingPayments
      /\ ToolUnchanged

\* masumi_get_agent up to the remote call of getAgent on a RegistryManager
\* of its own (index.ts:364-374).
MasumiGetAgent(agentId) ==
  LET request == [agentIdentifier |-> agentId, network |-> Network] IN
  /\ inflight' = Append(inflight, RegistryCall("getAgent", "tool", agentId, request, <<>>))
  /\ lastOp' = Step("masumi_get_agent", "tool", agentId, "pending", Absent, request,
                    Unserved)
  /\ emitted' = <<>>
  /\ polled' = Absent
  /\ UNCHANGED pendingPayments
  /\ ToolUnchanged

\* The continuation of getAgent on the tool's own cache, registry.close()
\* and the return, or the two catch blocks (index.ts:374-398).
MasumiGetAgentReturns(i, answer) ==
  LET call == inflight[i]
  IN  /\ call.op = "getAgent"
      /\ call.by = "tool"
      /\ inflight' = Remove(inflight, i)
      /\ IF AgentReturned(answer)
         THEN /\ emitted' = <<>>
              /\ lastOp' = Step("masumi_get_agent", "tool", call.id, "returned",
                                [success |-> TRUE,
                                 agent |-> [agentIdentifier |->
                                              answer.entity.data.agentIdentifier,
                                            state |-> answer.entity.data.state]],
                                call.request, answer)
         ELSE /\ emitted' = RegistryErrorEvents(RegistryThrown(answer))
              /\ lastOp' = Step("masumi_get_agent", "tool", call.id, "returned",
                                ToolFailure(RegistryThrown(answer),
                                            "Failed to get agent details"),
                                call.request, answer)
      /\ polled' = Absent
      /\ UNCHANGED pendingPayments
      /\ ToolUnchanged

\* The message of the catch block of each tool (index.ts:85, 147, 184, 224,
\* 257, 296, 351, 395).
ToolMessage ==
  [masumi_enable |-> "Failed to enable Masumi payments",
   masumi_create_payment |-> "Failed to create payment request",
   masumi_check_payment |-> "Failed to check payment status",
   masumi_complete_payment |-> "Failed to submit work result",
   masumi_wallet_balance |-> "Failed to get wallet balance",
   masumi_list_payments |-> "Failed to list payments",
   masumi_search_agents |-> "Failed to search agents",
   masumi_get_agent |-> "Failed to get agent details"]

\* loadConfig() (index.ts:17-26) is the first statement of every tool's try
\* block: MasumiPluginConfigSchema.parse returns the configuration or throws
\* on an environment it rejects.  This is the call of a tool whose
\* configuration is rejected: the catch block returns the failure, and no
\* manager is constructed.  The step is recorded as loadConfig's, of the
\* tool it was called in.
LoadConfigFails(tool) ==
  /\ lastOp' = Step("loadConfig", "tool", Absent, "returned",
                    ToolFailure("ZodError", ToolMessage[tool]), [tool |-> tool],
                    Unserved)
  /\ emitted' = <<>>
  /\ polled' = Absent
  /\ UNCHANGED <<pendingPayments, inflight>>
  /\ ToolUnchanged

\* params.pricingTier || 'free'
PricingTierOf(params) ==
  IF "pricingTier" \in DOMAIN params /\ Truthy(params.pricingTier)
  THEN params.pricingTier ELSE "free"

\* The options masumi_enable constructs its AutoProvisionService with
\* (index.ts:45-51), the configuration aside.
ServiceOptions(params) ==
  [autoProvision |-> TRUE, pricingTier |-> PricingTierOf(params)]
  @@ (IF "agentName" \in DOMAIN params THEN [agentName |-> params.agentName] ELSE NoFields)
  @@ (IF "description" \in DOMAIN params
      THEN [agentDescription |-> params.description] ELSE NoFields)

\* masumi_enable up to `await service.getProvisionStatus()` (index.ts:37-54).
MasumiEnable(params) ==
  /\ inflight' = Append(inflight,
                        Call("getProvisionStatus", "tool", Absent,
                             ServiceOptions(params), 0) @@ [params |-> params])
  /\ lastOp' = Step("masumi_enable", "tool", Absent, "pending", Absent,
                    ServiceOptions(params), Unserved)
  /\ emitted' = <<>>
  /\ polled' = Absent
  /\ UNCHANGED pendingPayments
  /\ ToolUnchanged

\* getProvisionStatus has answered (index.ts:54-70): with a status the tool
\* returns it; with none (the empty sequence) it goes on to
\* `await service.provision({ agentName, pricingTier })`, the name and the
\* tier as given; on a rejection the catch block returns.
MasumiStatusReturns(i, answer) ==
  LET call == inflight[i]
      provision == [f \in {"agentName", "pricingTier"} \cap DOMAIN call.params |->
                      call.params[f]]
  IN  /\ call.op = "getProvisionStatus"
      /\ call.by = "tool"
      /\ IF answer.kind = "ok" /\ answer.entity = <<>>
         THEN /\ inflight' = Remove(inflight, i)
                               \o <<Call("provision", "tool", Absent, provision, 0)>>
              /\ lastOp' = Step("masumi_enable", "tool", Absent, "pending", Absent,
                                provision, answer)
         ELSE /\ inflight' = Remove(inflight, i)
              /\ lastOp' = Step("masumi_enable", "tool", Absent, "returned",
                                IF answer.kind = "ok"
                                THEN [success |-> TRUE,
                                      status |-> "already_provisioned",
                                      agentIdentifier |-> answer.entity[1].agentIdentifier,
                                      walletAddress |-> answer.entity[1].walletAddress,
                                      registryUrl |-> answer.entity[1].registryUrl]
                                ELSE ToolFailure(Thrown(answer), ToolMessage.masumi_enable),
                                call.request, answer)
      /\ emitted' = <<>>
      /\ polled' = Absent
      /\ UNCHANGED pendingPayments
      /\ ToolUnchanged

\* provision has answered (index.ts:72-87).
MasumiProvisionReturns(i, answer) ==
  LET call == inflight[i]
  IN  /\ call.op = "provision"
      /\ call.by = "tool"
      /\ inflight' = Remove(inflight, i)
      /\ lastOp' = Step("masumi_enable", "tool", Absent, "returned",
                        IF answer.kind = "ok"
                        THEN [success |-> TRUE,
                              status |-> "provisioned",
                              agentIdentifier |-> answer.entity.agentIdentifier,
                              walletAddress |-> answer.entity.walletAddress,
                              registryUrl |-> answer.entity.registryUrl,
                              credentialsPath |-> answer.entity.credentialsPath]
                        ELSE ToolFailure(Thrown(answer), ToolMessage.masumi_enable),
                        call.request, answer)
      /\ emitted' = <<>>
      /\ polled' = Absent
      /\ UNCHANGED pendingPayments
      /\ ToolUnchanged

\* masumi_wallet_balance up to the remote call of getWalletBalance on a
\* manager of its own (index.ts:236-241, payment.ts:288-295): without a
\* sellerVkey in the configuration the manager throws before the call.
MasumiWalletBalance(sellerVkey) ==
  /\ IF ~Truthy(sellerVkey)
     THEN /\ lastOp' = Step("masumi_wallet_balance", "tool", Absent, "returned",
                            ToolFailure("sellerVkey not configured",
                                        ToolMessage.masumi_wallet_balance),
                            NoRequest, Unserved)
          /\ UNCHANGED inflight
     ELSE /\ inflight' = Append(inflight,
                                Call("getWalletBalance", "tool", Absent,
                                     [network |-> Network], 0))
          /\ lastOp' = Step("masumi_wallet_balance", "tool", Absent, "pending", Absent,
                            [network |-> Network], Unserved)
  /\ pendingPayments' = NewStore
  /\ emitted' = <<>>
  /\ polled' = Absent
  /\ ToolUnchanged

\* parseInt(balance.ada) / 1_000_000: parseInt gives a number when the text
\* is a decimal one, and NaN when the field is missing or its text does not
\* start with a digit.  The quotient is kept as its whole part and its
\* millionths.
AdaAmount(balance) ==
  IF "ada" \in DOMAIN balance /\ balance.ada[1] = "String"
  THEN [whole |-> balance.ada[2] \div 1000000, millionths |-> balance.ada[2] % 1000000]
  ELSE [nan |-> TRUE]

\* The continuation of getWalletBalance, manager.close() and the return, or
\* the catch block (payment.ts:297, index.ts:242-259).
MasumiWalletReturns(i, answer) ==
  LET call == inflight[i]
  IN  /\ call.op = "getWalletBalance"
      /\ call.by = "tool"
      /\ inflight' = Remove(inflight, i)
      /\ lastOp' = Step("masumi_wallet_balance", "tool", Absent, "returned",
                        IF answer.kind = "ok"
                        THEN [success |-> TRUE,
                              ada |-> AdaAmount(answer.entity),
                              lovelace |-> IF "ada" \in DOMAIN answer.entity
                                           THEN answer.entity.ada ELSE <<Absent>>,
                              tokens |-> IF "tokens" \in DOMAIN answer.entity
                                         THEN answer.entity.tokens ELSE <<>>]
                        ELSE ToolFailure(Thrown(answer), ToolMessage.masumi_wallet_balance),
                        call.request, answer)
      /\ pendingPayments' = <<>>
      /\ emitted' = <<>>
      /\ polled' = Absent
      /\ ToolUnchanged

\* masumi_list_payments up to the remote call of listPayments on a manager
\* of its own, with limit: params.limit || 10 (index.ts:270-277,
\* payment.ts:328-344).
MasumiListPayments(params) ==
  LET limit == IF "limit" \in DOMAIN params /\ params.limit # 0 THEN params.limit ELSE 10
      query == ListQuery([limit |-> limit])
  IN
  /\ inflight' = Append(inflight, Call("listPayments", "tool", Absent, query, 0))
  /\ lastOp' = Step("masumi_list_payments", "tool", Absent, "pending", Absent, query,
                    Unserved)
  /\ pendingPayments' = NewStore
  /\ emitted' = <<>>
  /\ polled' = Absent
  /\ ToolUnchanged

\* payments.map(p => ({ blockchainIdentifier, state: p.onChainState,
\* payByTime, submitResultTime })) (index.ts:282-287).
ListedPayments(payments) ==
  [k \in 1..Len(payments) |->
     [blockchainIdentifier |-> payments[k].blockchainIdentifier,
      state |-> payments[k].onChainState,
      payByTime |-> payments[k].payByTime,
      submitResultTime |-> payments[k].submitResultTime]]

\* The continuation of listPayments, manager.close() and the return, or the
\* catch block (payment.ts:346-349, index.ts:278-298).
MasumiListReturns(i, answer) ==
  LET call == inflight[i]
  IN  /\ call.op = "listPayments"
      /\ call.by = "tool"
      /\ inflight' = Remove(inflight, i)
      /\ lastOp' = Step("masumi_list_payments", "tool", Absent, "returned",
                        IF answer.kind = "ok"
                        THEN [success |-> TRUE,
                              payments |-> ListedPayments(ListResult(answer.entity).payments),
                              nextCursorId |-> ListResult(answer.entity).nextCursorId,
                              count |-> Len(ListResult(answer.entity).payments)]
                        ELSE ToolFailure(Thrown(answer), ToolMessage.masumi_list_payments),
                        call.request, answer)
      /\ pendingPayments' = <<>>
      /\ emitted' = <<>>
      /\ polled' = Absent
      /\ ToolUnchanged

(***************************************************************************)
(* History variables.  They observe the steps and constrain nothing: each  *)
(* specification records the histories its properties speak of.            *)
(***************************************************************************)
\* The step just taken was a successful checkPaymentStatus (of a caller or of the monitor).
RefreshedNow == lastOp'.op = "checkPaymentStatus" /\ lastOp'.outcome = "returned"

RefreshHistory ==
  lastRefresh' =
    IF RefreshedNow
    THEN Refreshed(lastRefresh, lastOp'.id, lastOp'.value, emitted')
    ELSE IF pendingPayments' # pendingPayments THEN NoRefresh ELSE lastRefresh

TerminalHistory == everTerminal' = TrackTerminal(everTerminal, pendingPayments')

\* The step just taken was a createPaymentRequest that returned its entity.
CreatedNow == lastOp'.op = "createPaymentRequest" /\ lastOp'.outcome = "returned"

CreatedHistory ==
  createdWith' =
    IF CreatedNow
    THEN [createdWith EXCEPT ![lastOp'.id] = lastOp'.request.identifierFromPurchaser]
    ELSE createdWith

ClosedHistory == closed' = (closed \/ lastOp'.op = "close")

\* The lifecycle of one payment, step by step: created with no onChainState
\* as the store's only entry (stage 1), refreshed to FundsLocked (2), its
\* result submitted (3) and accepted (4), refreshed to Withdrawn (5).  A
\* stage records what its step emitted or sent; a step that changes the
\* store otherwise, or another submitResult, ends the journey.
JourneyAfter(j) ==
  IF /\ CreatedNow
     /\ lastOp'.value.onChainState = Absent
     /\ Len(pendingPayments') = 1
  THEN [NoJourney EXCEPT !.stage = 1, !.id = lastOp'.id]
  ELSE IF /\ j.stage = 1
          /\ RefreshedNow /\ lastOp'.id = j.id
          /\ lastOp'.value.onChainState = "FundsLocked"
  THEN [j EXCEPT !.stage = 2, !.locked = CountEvents(emitted', "payment:funds_locked")]
  ELSE IF /\ j.stage = 2
          /\ lastOp'.op = "submitResult" /\ lastOp'.id = j.id
          /\ lastOp'.outcome = "pending"
  THEN [j EXCEPT !.stage = 3, !.hash = lastOp'.request.resultHash]
  ELSE IF /\ j.stage = 3
          /\ lastOp'.op = "submitResult" /\ lastOp'.outcome = "returned"
          /\ ~IsCompleted(lastOp'.value)
  THEN [j EXCEPT !.stage = 4]
  ELSE IF /\ j.stage = 4
          /\ RefreshedNow /\ lastOp'.id = j.id
          /\ lastOp'.value.onChainState = "Withdrawn"
  THEN [j EXCEPT !.stage = 5, !.completed = CountEvents(emitted', "payment:completed")]
  ELSE IF j.stage = 5 /\ pendingPayments' = pendingPayments
  THEN [j EXCEPT !.polled = j.polled \/ polled' = j.id]
  ELSE IF pendingPayments' = pendingPayments /\ lastOp'.op # "submitResult"
  THEN j
  ELSE NoJourney

JourneyHistory == journey' = JourneyAfter(journey)

(***************************************************************************)
(* Spec: one manager and its callers, against a remote whose answers are   *)
(* inputs.                                                                 *)
(***************************************************************************)
\* The deadlines the remote reports for the payments of this specification.
PayBy0 == 12 * HourMs

SubmitBy0 == 24 * HourMs

\* The purchaser each remote payment of this specification was made for.
PurchaserOf(bid) == IF bid = "b1" THEN "p1" ELSE "p2"

\* The entities the remote may answer a request about `bid` with.
Answers(bid) ==
  {Payment(bid, PurchaserOf(bid), st, PayBy0, SubmitBy0) : st \in States \cup {Absent}}

\* The parameters of createPaymentRequest callers use here.
CreateParams ==
  {[identifierFromPurchaser |-> p, inputData |-> Absent, metadata |-> Absent] :
     p \in Purchasers}

\* The answers a call may get without their NextAction: to submitResult for
\* the first identifier, and to the calls of the tools, which read it.
RawAnswers(call) ==
  IF (call.op = "submitResult" /\ call.id = "b1") \/ call.by = "tool"
  THEN {WithoutNextAction(Payment(IF call.id = Absent THEN "b1" ELSE call.id, "p1",
                                  "ResultSubmitted", PayBy0, SubmitBy0))}
  ELSE {}

\* The remote answers a call with an entity, or the call fails.
AnswersOf(call) ==
  {Fail(e) : e \in Errors}
  \cup {Ok(r) : r \in IF call.op = "createPaymentRequest"
                      THEN UNION {Answers(b) : b \in Ids}
                      ELSE Answers(call.id)}
  \cup {Ok(r) : r \in RawAnswers(call)}

InitSpec ==
  /\ Init
  /\ agentIdentifier \in {"agent1", Absent}
  /\ ledger = NoLedger

Histories ==
  RefreshHistory /\ UNCHANGED <<createdWith, everTerminal, closed, journey, announced, cycle>>

Next ==
  \/ \E params \in CreateParams :
       /\ Room(MaxInFlight) \/ agentIdentifier \in {Absent, Empty}
       /\ CreatePaymentRequest(params, Steady(0)) /\ Histories
  \/ \E id \in Ids : Room(MaxInFlight) /\ CheckPaymentStatus(id) /\ Histories
  \/ \E id \in Ids, out \in Outputs :
       /\ Room(MaxInFlight) \/ ~MapHas(pendingPayments, id)
       /\ SubmitResult(id, out) /\ Histories
  \/ \E id \in Ids : Room(MaxInFlight) /\ AuthorizeRefund(id) /\ Histories
  \/ \E i \in 1..Len(inflight) : \E a \in AnswersOf(inflight[i]) :
       CreateReturns(i, a) /\ Histories
  \/ \E i \in 1..Len(inflight) : \E a \in AnswersOf(inflight[i]) :
       CheckReturns(i, a) /\ Histories
  \/ \E i \in 1..Len(inflight) : \E a \in AnswersOf(inflight[i]) :
       SubmitReturns(i, a) /\ Histories
  \/ \E i \in 1..Len(inflight) : \E a \in AnswersOf(inflight[i]) :
       RefundReturns(i, a) /\ Histories
  \/ CleanupCompletedPayments /\ Histories
  \/ Close /\ Histories

Spec == InitSpec /\ [][Next]_vars

(***************************************************************************)
(* SpecMonitor: the status monitor over a store of up to three payments    *)
(* that callers' refreshes fill, against a remote whose answers are inputs *)
(***************************************************************************)
\* The states the remote reports here: none yet, a non-terminal one and two terminal ones.
MonitorStates == {Absent, "FundsLocked", "Withdrawn", "RefundWithdrawn"}

MonitorAnswersOf(call) ==
  {Fail(e) : e \in Errors}
  \cup {Ok(Payment(call.id, "p1", st, PayBy0, SubmitBy0)) : st \in MonitorStates}

InitMonitor ==
  /\ Init
  /\ agentIdentifier = "agent1"
  /\ ledger = NoLedger

MonitorHistories ==
  UNCHANGED <<lastRefresh, createdWith, everTerminal, closed, journey, announced, cycle>>

NextMonitor ==
  \/ \E id \in MonitorIds : Room(MaxPolls) /\ CheckPaymentStatus(id) /\ MonitorHistories
  \/ \E i \in 1..Len(inflight) : \E a \in MonitorAnswersOf(inflight[i]) :
       CheckReturns(i, a) /\ MonitorHistories
  \/ \E i \in 1..Len(inflight) : \E a \in MonitorAnswersOf(inflight[i]) :
       MonitorCheckReturns(i, a) /\ MonitorHistories
  \/ \E i \in 1..Len(inflight) : MonitorResumes(i) /\ MonitorHistories
  \/ StartStatusMonitoring /\ MonitorHistories
  \/ StopStatusMonitoring /\ MonitorHistories
  \/ /\ Room(MaxPolls) \/ NextPoll(pendingPayments, 1) = 0
     /\ IntervalFires /\ MonitorHistories
  \/ CleanupCompletedPayments /\ MonitorHistories
  \/ Close /\ MonitorHistories

SpecMonitor == InitMonitor /\ [][NextMonitor]_vars

(***************************************************************************)
(* The remote ledger as a process of its own: a payment's state only moves *)
(* forward along the lifecycle, the remote answers a request with the      *)
(* state it holds at that moment, and the answer reaches the manager       *)
(* later, in any order with the answers of other requests.                 *)
(***************************************************************************)
\* The place of a state in the lifecycle: no state yet, the three working
\* states in order, then the terminal states.
Rank(st) ==
  IF st = Absent THEN 0
  ELSE IF st \in completedStates THEN 4
  ELSE CHOOSE i \in 1..3 : PaymentState[i] = st

\* A step of the remote or of the network: no method of the manager runs.
RemoteStep(what, id) ==
  /\ lastOp' = Step(what, "remote", id, "returned", Absent, NoRequest, Unserved)
  /\ emitted' = <<>>
  /\ polled' = Absent
  /\ UNCHANGED <<pendingPayments, statusMonitorInterval, isMonitoring, activeTimers,
                 listeners, agentIdentifier, registeredAgents>>

\* The payment moves forward on the ledger.
LedgerAdvances(id, st) ==
  /\ ledger[id] # "none"
  /\ Rank(st) > Rank(ledger[id])
  /\ ledger' = [ledger EXCEPT ![id] = st]
  /\ RemoteStep("advance", id)
  /\ UNCHANGED inflight

\* The remote answers the refresh request i with what the ledger holds, or fails.
LedgerServes(i, failure) ==
  LET call == inflight[i]
  IN  /\ call.resp = Unserved
      /\ call.op = "checkPaymentStatus"
      /\ ledger[call.id] # "none"
      /\ inflight' = [inflight EXCEPT ![i].resp =
                        IF failure = Absent
                        THEN Ok(Payment(call.id, "p1", ledger[call.id], PayBy0, SubmitBy0))
                        ELSE Fail(failure)]
      /\ RemoteStep("serve", call.id)
      /\ UNCHANGED ledger

\* The answer the remote gave call i has arrived.
Arrived(i) == inflight[i].resp # Unserved

LedgerIds == {"b1"}

InitLedger ==
  /\ Init
  /\ agentIdentifier = "agent1"
  /\ ledger \in {[NoLedger EXCEPT !["b1"] = st] : st \in {Absent, "FundsLocked"}}

\* What the payment:state_changed of a step adds to the announcements of its
\* identifier: the state announced last, the states announced so far,
\* whether a state has been announced a second time and whether a state
\* was announced after one that is later in the lifecycle.
Announced(a, event) ==
  LET new == IF event.data.newState = Null THEN Absent ELSE event.data.newState
  IN  [last |-> new,
       seen |-> a.seen \cup {new},
       repeated |-> a.repeated \/ new \in a.seen,
       regressed |-> a.regressed \/ (a.last # "none" /\ Rank(new) < Rank(a.last))]

AnnounceHistory ==
  announced' =
    IF CountEvents(emitted', "payment:state_changed") = 0 THEN announced
    ELSE LET event == emitted'[1]
         IN  [announced EXCEPT ![event.data.blockchainIdentifier] = Announced(@, event)]

LedgerHistories ==
  TerminalHistory /\ AnnounceHistory
  /\ UNCHANGED <<lastRefresh, createdWith, closed, journey, cycle>>

NextLedger ==
  \/ \E id \in LedgerIds : Room(MaxRace) /\ CheckPaymentStatus(id) /\ LedgerHistories
  \/ \E id \in LedgerIds, st \in States : LedgerAdvances(id, st) /\ LedgerHistories
  \/ \E i \in 1..Len(inflight), f \in Errors \cup {Absent} :
       LedgerServes(i, f) /\ LedgerHistories
  \/ \E i \in 1..Len(inflight) :
       Arrived(i) /\ CheckReturns(i, inflight[i].resp) /\ LedgerHistories
  \/ \E i \in 1..Len(inflight) :
       Arrived(i) /\ MonitorCheckReturns(i, inflight[i].resp) /\ LedgerHistories
  \/ \E i \in 1..Len(inflight) : MonitorResumes(i) /\ LedgerHistories
  \/ StartStatusMonitoring /\ LedgerHistories
  \/ StopStatusMonitoring /\ LedgerHistories
  \/ /\ Room(MaxRace) \/ NextPoll(pendingPayments, 1) = 0
     /\ IntervalFires /\ LedgerHistories

SpecLedger == InitLedger /\ [][NextLedger]_vars

(***************************************************************************)
(* SpecFields: one payment, against a remote that answers with the fields  *)
(* of its response contract: identifierFromPurchaser is either the         *)
(* purchaser's or left out.                                                *)
(***************************************************************************)
FieldIds == {"b1"}

\* The deadlines the remote's responses carry here: those of the creation, or
\* both one hour later.
FieldDeadlines ==
  {[payBy |-> PayBy0 + shift, submitBy |-> SubmitBy0 + shift] : shift \in {0, HourMs}}

FieldAnswersOf(call) ==
  {Fail(e) : e \in Errors}
  \cup {Ok(Payment("b1", p, st, d.payBy, d.submitBy)) :
          p \in {"p1", Absent},
          st \in {Absent, "FundsLocked", "ResultSubmitted", "Withdrawn"},
          d \in FieldDeadlines}

\* The input data and the metadata callers supply here.
InputDatas == {"in1"}

Metadatas == {"meta1"}

FieldParams ==
  {[identifierFromPurchaser |-> "p1", inputData |-> d, metadata |-> md] :
     d \in InputDatas \cup {Absent}, md \in Metadatas \cup {Absent}}
  \cup {[identifierFromPurchaser |-> "p1", inputData |-> Empty, metadata |-> Empty]}

InitFields ==
  /\ Init
  /\ agentIdentifier = "agent1"
  /\ ledger = NoLedger

FieldHistories ==
  CreatedHistory /\ JourneyHistory
  /\ UNCHANGED <<lastRefresh, everTerminal, closed, announced, cycle>>

NextFields ==
  \/ \E params \in FieldParams :
       Room(MaxFieldCalls) /\ CreatePaymentRequest(params, Steady(0)) /\ FieldHistories
  \/ \E id \in FieldIds : Room(MaxFieldCalls) /\ CheckPaymentStatus(id) /\ FieldHistories
  \/ \E id \in FieldIds, out \in Outputs :
       /\ Room(MaxFieldCalls) \/ ~MapHas(pendingPayments, id)
       /\ SubmitResult(id, out) /\ FieldHistories
  \/ \E id \in FieldIds : Room(MaxFieldCalls) /\ AuthorizeRefund(id) /\ FieldHistories
  \/ \E i \in 1..Len(inflight) : \E a \in FieldAnswersOf(inflight[i]) :
       CreateReturns(i, a) /\ FieldHistories
  \/ \E i \in 1..Len(inflight) : \E a \in FieldAnswersOf(inflight[i]) :
       CheckReturns(i, a) /\ FieldHistories
  \/ \E i \in 1..Len(inflight) : \E a \in FieldAnswersOf(inflight[i]) :
       SubmitReturns(i, a) /\ FieldHistories
  \/ \E i \in 1..Len(inflight) : \E a \in FieldAnswersOf(inflight[i]) :
       RefundReturns(i, a) /\ FieldHistories
  \/ \E i \in 1..Len(inflight) : \E a \in FieldAnswersOf(inflight[i]) :
       MonitorCheckReturns(i, a) /\ FieldHistories
  \/ \E i \in 1..Len(inflight) : MonitorResumes(i) /\ FieldHistories
  \/ StartStatusMonitoring /\ FieldHistories
  \/ /\ Room(MaxFieldCalls) \/ NextPoll(pendingPayments, 1) = 0
     /\ IntervalFires /\ FieldHistories

SpecFields == InitFields /\ [][NextFields]_vars

(***************************************************************************)
(* SpecList: listPayments next to the monitor, over a store that refreshes *)
(* of b1 fill, against a remote that lists payments b2 and b3.             *)
(***************************************************************************)
ListOptions ==
  {NoFields, [limit |-> 0], [limit |-> 5, cursorId |-> "c1"],
   [cursorId |-> Empty, filterSmartContractAddress |-> Empty],
   [filterSmartContractAddress |-> "addr1"]}

\* The pages the remote answers a list query with.
ListPages ==
  {[nextCursorId |-> Absent],
   [data |-> <<>>, nextCursorId |-> Absent],
   [data |-> <<Payment("b2", "p1", "FundsLocked", PayBy0, SubmitBy0),
               Payment("b3", "p1", "Withdrawn", PayBy0, SubmitBy0)>>,
    nextCursorId |-> "c1"]}

ListAnswersOf(call) ==
  {Fail(e) : e \in Errors}
  \cup (IF call.op = "listPayments"
        THEN {Ok(page) : page \in ListPages}
        ELSE {Ok(Payment(call.id, "p1", st, PayBy0, SubmitBy0)) :
                st \in {"FundsLocked", "Withdrawn"}})

InitList ==
  /\ Init
  /\ agentIdentifier = "agent1"
  /\ ledger = NoLedger

NextList ==
  \/ \E options \in ListOptions :
       Room(MaxListCalls) /\ ListPayments(options) /\ MonitorHistories
  \/ \E i \in 1..Len(inflight) : \E a \in ListAnswersOf(inflight[i]) :
       ListReturns(i, a) /\ MonitorHistories
  \/ Room(MaxListCalls) /\ CheckPaymentStatus("b1") /\ MonitorHistories
  \/ \E i \in 1..Len(inflight) : \E a \in ListAnswersOf(inflight[i]) :
       CheckReturns(i, a) /\ MonitorHistories
  \/ \E i \in 1..Len(inflight) : \E a \in ListAnswersOf(inflight[i]) :
       MonitorCheckReturns(i, a) /\ MonitorHistories
  \/ \E i \in 1..Len(inflight) : MonitorResumes(i) /\ MonitorHistories
  \/ StartStatusMonitoring /\ MonitorHistories
  \/ StopStatusMonitoring /\ MonitorHistories
  \/ /\ Room(MaxListCalls) \/ NextPoll(pendingPayments, 1) = 0
     /\ IntervalFires /\ MonitorHistories

SpecList == InitList /\ [][NextList]_vars

(***************************************************************************)
(* SpecClose: one payment, listeners, the monitor and close.  Callers use  *)
(* the manager until they close it and not afterwards; what is in flight   *)
(* at that moment is answered later.                                       *)
(***************************************************************************)
MaxCloseCalls == 1   \* SpecClose: remote calls in flight at once

Listeners == {"l1"}

CloseParams ==
  {[identifierFromPurchaser |-> "p1", inputData |-> Absent, metadata |-> Absent]}

CloseAnswersOf(call) ==
  {Fail("HTTP500")}
  \cup {Ok(Payment("b1", "p1", st, PayBy0, SubmitBy0)) : st \in {"FundsLocked", "Withdrawn"}}

InitClose ==
  /\ Init
  /\ agentIdentifier = "agent1"
  /\ ledger = NoLedger

CloseHistories ==
  ClosedHistory /\ UNCHANGED <<lastRefresh, createdWith, everTerminal, journey, announced, cycle>>

NextClose ==
  \/ \E l \in Listeners : ~closed /\ On(l) /\ CloseHistories
  \/ \E params \in CloseParams :
       ~closed /\ Room(MaxCloseCalls) /\ CreatePaymentRequest(params, Steady(0)) /\ CloseHistories
  \/ ~closed /\ Room(MaxCloseCalls) /\ CheckPaymentStatus("b1") /\ CloseHistories
  \/ /\ ~closed
     /\ Room(MaxCloseCalls) \/ ~MapHas(pendingPayments, "b1")
     /\ SubmitResult("b1", "out1") /\ CloseHistories
  \/ ~closed /\ Room(MaxCloseCalls) /\ AuthorizeRefund("b1") /\ CloseHistories
  \/ \E i \in 1..Len(inflight) : \E a \in CloseAnswersOf(inflight[i]) :
       CreateReturns(i, a) /\ CloseHistories
  \/ \E i \in 1..Len(inflight) : \E a \in CloseAnswersOf(inflight[i]) :
       CheckReturns(i, a) /\ CloseHistories
  \/ \E i \in 1..Len(inflight) : \E a \in CloseAnswersOf(inflight[i]) :
       SubmitReturns(i, a) /\ CloseHistories
  \/ \E i \in 1..Len(inflight) : \E a \in CloseAnswersOf(inflight[i]) :
       RefundReturns(i, a) /\ CloseHistories
  \/ \E i \in 1..Len(inflight) : \E a \in CloseAnswersOf(inflight[i]) :
       MonitorCheckReturns(i, a) /\ CloseHistories
  \/ \E i \in 1..Len(inflight) : MonitorResumes(i) /\ CloseHistories
  \/ ~closed /\ StartStatusMonitoring /\ CloseHistories
  \/ ~closed /\ StopStatusMonitoring /\ CloseHistories
  \/ /\ Room(MaxCloseCalls) \/ NextPoll(pendingPayments, 1) = 0
     /\ IntervalFires /\ CloseHistories
  \/ ~closed /\ Close /\ CloseHistories

SpecClose == InitClose /\ [][NextClose]_vars

(***************************************************************************)
(* SpecCreate: createPaymentRequest called at different times with and     *)
(* without its two deadlines.                                              *)
(***************************************************************************)
MaxCreateCalls == 1   \* SpecCreate: remote calls in flight at once

\* The clocks of the calls here: Date.now() returns 0 or 90 s throughout a
\* call, or ticks by a millisecond between the reads of one call.
Nows == {Steady(0), Steady(90 * 1000), Ticking(90 * 1000)}

\* The deadlines callers supply here.
PayByGiven == 2 * HourMs

SubmitByGiven == 30 * HourMs

SubmitBySoon == 6 * HourMs

DeadlineParams ==
  {[identifierFromPurchaser |-> p, inputData |-> Absent, metadata |-> Absent]
     @@ payByTime @@ submitResultTime :
     p \in Purchasers,
     payByTime \in {NoFields, [payByTime |-> PayByGiven]},
     submitResultTime \in {NoFields, [submitResultTime |-> SubmitByGiven],
                           [submitResultTime |-> SubmitBySoon]}}

InitCreate ==
  /\ Init
  /\ agentIdentifier \in {"agent1", Absent, Empty}
  /\ ledger = NoLedger

NextCreate ==
  \/ \E params \in DeadlineParams, clock \in Nows :
       /\ Room(MaxCreateCalls) \/ agentIdentifier \in {Absent, Empty}
       /\ CreatePaymentRequest(params, clock) /\ MonitorHistories
  \/ \E i \in 1..Len(inflight) : \E a \in AnswersOf(inflight[i]) :
       CreateReturns(i, a) /\ MonitorHistories

SpecCreate == InitCreate /\ [][NextCreate]_vars

(***************************************************************************)
(* SpecRetry: the monitor over a store of up to two payments that callers' *)
(* refreshes fill, with remote calls that fail.  The interval keeps firing *)
(* while its timer is active, every remote call is answered or times out,  *)
(* and a loop whose refresh has returned resumes: its continuation is a    *)
(* queued microtask, which runs before any later timer or answer.          *)
(***************************************************************************)
MaxRetryCalls == 1   \* SpecRetry: remote calls in flight at once

RetryAnswersOf(call) ==
  {Fail("HTTP500")}
  \cup {Ok(Payment(call.id, "p1", st, PayBy0, SubmitBy0)) : st \in {"FundsLocked", "Withdrawn"}}

InitRetry ==
  /\ Init
  /\ agentIdentifier = "agent1"
  /\ ledger = NoLedger

\* The interval fires and its callback runs.
RetryCycle ==
  /\ Room(MaxRetryCalls) \/ NextPoll(pendingPayments, 1) = 0
  /\ IntervalFires /\ MonitorHistories

\* The answer of a remote call arrives.
RetryAnswer ==
  \/ \E i \in 1..Len(inflight) : \E a \in RetryAnswersOf(inflight[i]) :
       CheckReturns(i, a) /\ MonitorHistories
  \/ \E i \in 1..Len(inflight) : \E a \in RetryAnswersOf(inflight[i]) :
       MonitorCheckReturns(i, a) /\ MonitorHistories

\* The monitor's loop resumes after the refresh it awaited has returned.
RetryResumes == \E i \in 1..Len(inflight) : MonitorResumes(i) /\ MonitorHistories

NextRetry ==
  \/ \E id \in Ids : Room(MaxRetryCalls) /\ CheckPaymentStatus(id) /\ MonitorHistories
  \/ StartStatusMonitoring /\ MonitorHistories
  \/ RetryCycle
  \/ RetryAnswer
  \/ RetryResumes

SpecRetry ==
  /\ InitRetry /\ [][NextRetry]_vars
  /\ SF_vars(RetryCycle) /\ WF_vars(RetryAnswer) /\ WF_vars(RetryResumes)

(***************************************************************************)
(* SpecCycle: one cycle of the monitor at a time (the interval is longer   *)
(* than a cycle), next to callers that refresh, clean up and close while   *)
(* the cycle is suspended on its remote call.                              *)
(***************************************************************************)
MaxCycleCalls == 1   \* SpecCycle: callers' remote calls in flight at once

\* What a step of the monitor adds to the record of its cycle: the callback
\* starts a cycle when it polls its first entry.
CycleAfter(c) ==
  IF lastOp'.by # "monitor" \/ polled' = Absent THEN c
  ELSE IF lastOp'.op = "interval" THEN [seen |-> {polled'}, twice |-> FALSE]
  ELSE [seen |-> c.seen \cup {polled'}, twice |-> c.twice \/ polled' \in c.seen]

CycleHistories ==
  /\ cycle' = CycleAfter(cycle)
  /\ UNCHANGED <<lastRefresh, createdWith, everTerminal, closed, journey, announced>>

\* No callback of the interval is suspended on a remote call.
NoCycleUnderWay == \A i \in 1..Len(inflight) : inflight[i].by # "monitor"

\* The callers' remote calls in flight.
CallerCalls == {i \in 1..Len(inflight) : inflight[i].by = "caller"}

InitCycle ==
  /\ Init
  /\ agentIdentifier = "agent1"
  /\ ledger = NoLedger

NextCycle ==
  \/ \E id \in Ids :
       /\ Cardinality(CallerCalls) < MaxCycleCalls
       /\ CheckPaymentStatus(id) /\ CycleHistories
  \/ \E i \in 1..Len(inflight) : \E a \in MonitorAnswersOf(inflight[i]) :
       CheckReturns(i, a) /\ CycleHistories
  \/ \E i \in 1..Len(inflight) : \E a \in MonitorAnswersOf(inflight[i]) :
       MonitorCheckReturns(i, a) /\ CycleHistories
  \/ \E i \in 1..Len(inflight) : MonitorResumes(i) /\ CycleHistories
  \/ StartStatusMonitoring /\ CycleHistories
  \/ NoCycleUnderWay /\ IntervalFires /\ CycleHistories
  \/ CleanupCompletedPayments /\ CycleHistories
  \/ Close /\ CycleHistories

SpecCycle == InitCycle /\ [][NextCycle]_vars

(***************************************************************************)
(* SpecKeys: create, refresh, submit and refund of two payments, against a *)
(* remote whose answer names the payment it is about: the one asked for or *)
(* the other one.                                                          *)
(***************************************************************************)
MaxKeyCalls == 1   \* SpecKeys: remote calls in flight at once

KeyAnswersOf(call) ==
  {Fail("HTTP500")}
  \cup {Ok(Payment(b, "p1", st, PayBy0, SubmitBy0)) :
          b \in Ids, st \in {Absent, "FundsLocked"}}

InitKeys ==
  /\ Init
  /\ agentIdentifier = "agent1"
  /\ ledger = NoLedger

NextKeys ==
  \/ \E params \in CloseParams :
       Room(MaxKeyCalls) /\ CreatePaymentRequest(params, Steady(0)) /\ MonitorHistories
  \/ \E id \in Ids : Room(MaxKeyCalls) /\ CheckPaymentStatus(id) /\ MonitorHistories
  \/ \E id \in Ids, out \in Outputs :
       /\ Room(MaxKeyCalls) \/ ~MapHas(pendingPayments, id)
       /\ SubmitResult(id, out) /\ MonitorHistories
  \/ \E id \in Ids : Room(MaxKeyCalls) /\ AuthorizeRefund(id) /\ MonitorHistories
  \/ \E i \in 1..Len(inflight) : \E a \in KeyAnswersOf(inflight[i]) :
       CreateReturns(i, a) /\ MonitorHistories
  \/ \E i \in 1..Len(inflight) : \E a \in KeyAnswersOf(inflight[i]) :
       CheckReturns(i, a) /\ MonitorHistories
  \/ \E i \in 1..Len(inflight) : \E a \in KeyAnswersOf(inflight[i]) :
       SubmitReturns(i, a) /\ MonitorHistories
  \/ \E i \in 1..Len(inflight) : \E a \in KeyAnswersOf(inflight[i]) :
       RefundReturns(i, a) /\ MonitorHistories

SpecKeys == InitKeys /\ [][NextKeys]_vars

(***************************************************************************)
(* SpecRegistry: one RegistryManager and its callers, whose calls may      *)
(* overlap, against a registry whose answers are inputs.  The listeners    *)
(* here are those of the RegistryManager, and the callers may clear the    *)
(* cache and close the manager at any moment.                              *)
(***************************************************************************)
MaxRegistryCalls == 2   \* SpecRegistry: remote calls in flight at once

RegisterParams == {[network |-> Network, name |-> "agent one"]}

\* The options of searchAgents; listAgents(network) passes the network,
\* limit 10 and offset 0 (registry.ts:311-313).
SearchOptions ==
  {NoFields,
   [limit |-> 0],
   [network |-> Network, limit |-> 10, offset |-> 0],
   [network |-> Network, state |-> "Active", limit |-> 10, tags |-> <<"t1", "t2">>],
   [capability |-> Empty, state |-> Empty, offset |-> 0],
   [capability |-> "cap1", pricingType |-> "Free", offset |-> 20]}

\* The parameters of updateAgent; activateAgent and deactivateAgent pass
\* the identifier, the network and the state (registry.ts:382-403).
UpdateParams ==
  {[agentIdentifier |-> a, network |-> Network] @@ state :
     a \in AgentIds, state \in {NoFields, [state |-> "Inactive"], [state |-> "Active"]}}
  \cup {[agentIdentifier |-> "a1", network |-> Network, description |-> Empty,
          apiBaseUrl |-> "https://a1.example", tags |-> <<>>]}

\* The registry answers a call with its data, or the call fails.
RegistryAnswersOf(call) ==
  {Fail(e) : e \in Errors} \cup {Ok(NoFields)}
  \cup IF call.op = "searchAgents"
       THEN {Ok(Body(found)) : found \in {<<>>, <<Agent("a1", "Active")>>}}
       ELSE {Ok(Body(Agent(a, st))) : a \in AgentIds, st \in AgentStates}

InitRegistry ==
  /\ Init
  /\ agentIdentifier = "agent1"
  /\ ledger = NoLedger

NextRegistry ==
  \/ \E params \in RegisterParams :
       Room(MaxRegistryCalls) /\ RegisterAgent(params) /\ MonitorHistories
  \/ \E a \in AgentIds : Room(MaxRegistryCalls) /\ GetAgent(a, Network) /\ MonitorHistories
  \/ \E options \in SearchOptions :
       Room(MaxRegistryCalls) /\ SearchAgents(options) /\ MonitorHistories
  \/ \E params \in UpdateParams :
       Room(MaxRegistryCalls) /\ UpdateAgent(params) /\ MonitorHistories
  \/ \E i \in 1..Len(inflight) : \E a \in RegistryAnswersOf(inflight[i]) :
       RegisterReturns(i, a) /\ MonitorHistories
  \/ \E i \in 1..Len(inflight) : \E a \in RegistryAnswersOf(inflight[i]) :
       GetAgentReturns(i, a) /\ MonitorHistories
  \/ \E i \in 1..Len(inflight) : \E a \in RegistryAnswersOf(inflight[i]) :
       SearchReturns(i, a) /\ MonitorHistories
  \/ \E i \in 1..Len(inflight) : \E a \in RegistryAnswersOf(inflight[i]) :
       UpdateReturns(i, a) /\ MonitorHistories
  \/ \E listener \in Listeners : On(listener) /\ MonitorHistories
  \/ ClearCache /\ MonitorHistories
  \/ RegistryClose /\ MonitorHistories

SpecRegistry == InitRegistry /\ [][NextRegistry]_vars

(***************************************************************************)
(* SpecTools: the payment tools, called one after another or overlapping,  *)
(* against a remote whose answers are inputs.                              *)
(***************************************************************************)
MaxToolCalls == 1    \* SpecTools: remote calls in flight at once

\* The payments a tool has created or checked: each identifier a tool has
\* reported with success.
ToolHistory ==
  createdWith' =
    IF /\ lastOp'.op \in {"masumi_create_payment", "masumi_check_payment"}
       /\ lastOp'.outcome = "returned"
       /\ lastOp'.remote.kind = "ok"
       /\ lastOp'.value.success
    THEN [createdWith EXCEPT ![lastOp'.id] = "reported"]
    ELSE createdWith

ToolHistories ==
  ToolHistory /\ UNCHANGED <<lastRefresh, everTerminal, closed, journey, announced, cycle>>

ToolParams ==
  {[buyerIdentifier |-> p, taskDescription |-> "task1", inputData |-> d,
    metadata |-> md] @@ hours :
     hours \in {NoFields, [payByHours |-> 1, submitResultHours |-> 2]},
     p \in Purchasers, d \in InputDatas \cup {Absent}, md \in Metadatas \cup {Absent}}
  \cup {[buyerIdentifier |-> "p1", taskDescription |-> "task1", inputData |-> Empty,
          metadata |-> Empty, payByHours |-> 0, submitResultHours |-> h] : h \in {0, 2}}

\* The clocks of the tool calls here: the clock stands still, or it ticks
\* between the reads of a call of the first purchaser without input data.
ToolClocks(params) ==
  IF params.buyerIdentifier = "p1" /\ params.inputData = Absent
     /\ params.metadata = Absent
  THEN {Steady(0), Ticking(0)}
  ELSE {Steady(0)}

SearchToolParams ==
  {NoFields, [limit |-> 5, tags |-> <<"t1">>],
   [limit |-> 0, capability |-> Empty, pricingType |-> "Free"]}

\* An agent as the registry lists it: with its capability and its pricing,
\* with one of the two, or with neither.
ListedByRegistry ==
  {Agent("a1", "Active") @@ fields :
     fields \in {[Capability |-> [name |-> "cap1"], Pricing |-> [pricingType |-> "Free"]],
                 [Capability |-> [name |-> "cap1"]],
                 [Pricing |-> [pricingType |-> "Free"]],
                 NoFields}}

\* The result data masumi_complete_payment is given: a string, or an object.
ToolResultDatas ==
  {JString("out1"),
   JObject(<<[key |-> "b", val |-> JString("y")], [key |-> "a", val |-> JString("x")]>>)}

EnableParams == {NoFields, [agentName |-> "agent one", pricingTier |-> "basic"]}

SellerVkeys == {"vkey1", Absent, Empty}

ListToolParams == {NoFields, [limit |-> 0], [limit |-> 5]}

\* What the provisioning service reports of a provisioned agent.
ProvisionStatus ==
  [agentIdentifier |-> "agent1", walletAddress |-> "addr1",
   registryUrl |-> "https://registry.example/agent1"]

\* The wallet balances the payment service answers with: lovelace as a
\* decimal text, with the tokens or without, or a body without either.
Balances ==
  {[ada |-> String(2500000), tokens |-> <<"token1">>], [ada |-> String(0)],
   [ada |-> <<"Text", "n/a">>], NoFields}

\* The answers of the provisioning service and of the payment service to
\* the calls of masumi_enable, masumi_wallet_balance and
\* masumi_list_payments.
AdminAnswersOf(call) ==
  {Fail(e) : e \in Errors}
  \cup (CASE call.op = "getProvisionStatus" -> {Ok(<<>>), Ok(<<ProvisionStatus>>)}
          [] call.op = "provision" ->
               {Ok(ProvisionStatus @@ [credentialsPath |-> "path1"])}
          [] call.op = "getWalletBalance" -> {Ok(b) : b \in Balances}
          [] call.op = "listPayments" -> {Ok(page) : page \in ListPages}
          [] OTHER -> {})

\* The answers of the payment service and of the registry to a tool's call.
ToolAnswersOf(call) ==
  IF call.op \in {"getProvisionStatus", "provision", "getWalletBalance", "listPayments"}
  THEN AdminAnswersOf(call)
  ELSE IF call.op \in RegistryOps
  THEN {Fail(e) : e \in Errors} \cup {Ok(NoFields)}
       \cup IF call.op = "searchAgents"
            THEN {Ok(Body(<<>>))} \cup {Ok(Body(<<a>>)) : a \in ListedByRegistry}
            ELSE {Ok(Body(Agent(a, st))) : a \in AgentIds, st \in AgentStates}
  ELSE AnswersOf(call)
       \cup {Ok(Payment(IF call.id = Absent THEN "b1" ELSE call.id, "p1", Null,
                        PayBy0, SubmitBy0))}

InitTools ==
  /\ Init
  /\ agentIdentifier \in {"agent1", Absent, Empty}
  /\ ledger = NoLedger

NextTools ==
  \/ \E params \in ToolParams : \E clock \in ToolClocks(params) :
       /\ Room(MaxToolCalls) \/ agentIdentifier \in {Absent, Empty}
       /\ MasumiCreatePayment(params, clock) /\ ToolHistories
  \/ \E i \in 1..Len(inflight) : \E a \in ToolAnswersOf(inflight[i]) :
       MasumiCreateReturns(i, a) /\ ToolHistories
  \/ \E id \in Ids : Room(MaxToolCalls) /\ MasumiCheckPayment(id) /\ ToolHistories
  \/ \E i \in 1..Len(inflight) : \E a \in ToolAnswersOf(inflight[i]) :
       MasumiCheckReturns(i, a) /\ ToolHistories
  \/ \E id \in Ids, resultData \in ToolResultDatas :
       MasumiCompletePayment(id, resultData) /\ ToolHistories
  \/ \E params \in SearchToolParams :
       Room(MaxToolCalls) /\ MasumiSearchAgents(params) /\ ToolHistories
  \/ \E i \in 1..Len(inflight) : \E a \in ToolAnswersOf(inflight[i]) :
       MasumiSearchReturns(i, a) /\ ToolHistories
  \/ \E a \in AgentIds : Room(MaxToolCalls) /\ MasumiGetAgent(a) /\ ToolHistories
  \/ \E i \in 1..Len(inflight) : \E a \in ToolAnswersOf(inflight[i]) :
       MasumiGetAgentReturns(i, a) /\ ToolHistories
  \/ \E params \in EnableParams : Room(MaxToolCalls) /\ MasumiEnable(params) /\ ToolHistories
  \/ \E i \in 1..Len(inflight) : \E a \in ToolAnswersOf(inflight[i]) :
       MasumiStatusReturns(i, a) /\ ToolHistories
  \/ \E i \in 1..Len(inflight) : \E a \in ToolAnswersOf(inflight[i]) :
       MasumiProvisionReturns(i, a) /\ ToolHistories
  \/ \E sellerVkey \in SellerVkeys :
       /\ Room(MaxToolCalls) \/ ~Truthy(sellerVkey)
       /\ MasumiWalletBalance(sellerVkey) /\ ToolHistories
  \/ \E i \in 1..Len(inflight) : \E a \in ToolAnswersOf(inflight[i]) :
       MasumiWalletReturns(i, a) /\ ToolHistories
  \/ \E params \in ListToolParams :
       Room(MaxToolCalls) /\ MasumiListPayments(params) /\ ToolHistories
  \/ \E i \in 1..Len(inflight) : \E a \in ToolAnswersOf(inflight[i]) :
       MasumiListReturns(i, a) /\ ToolHistories
  \/ \E tool \in DOMAIN ToolMessage : LoadConfigFails(tool) /\ ToolHistories

SpecTools == InitTools /\ [][NextTools]_vars

(***************************************************************************)
(* SpecHash: the two hashes of a payment.  The input hash is taken of      *)
(* structured payloads, each in every insertion order of its keys.  The    *)
(* result hash is taken by submitResult of the string it is given: the     *)
(* callers here hand over result data as masumi_complete_payment prepares  *)
(* it, a string as it is and an object as its JSON text.                   *)
(***************************************************************************)
MaxKeys == 2    \* SpecHash: keys of an object payload

MaxHashCalls == 1   \* SpecHash: remote calls in flight at once

Keys == {KeyOrder[i] : i \in 1..MaxKeys}

\* The values of an entry: strings, and an object in both insertion orders.
EntryValues ==
  {JString("x"), JString("y"),
   JObject(<<[key |-> "a", val |-> JString("x")], [key |-> "b", val |-> JString("y")]>>),
   JObject(<<[key |-> "b", val |-> JString("y")], [key |-> "a", val |-> JString("x")]>>)}

\* The object payloads of at most MaxKeys entries with distinct keys.
Payloads ==
  {JObject(es) : es \in
     {es \in UNION {[1..n -> [key : Keys, val : EntryValues]] : n \in 0..MaxKeys} :
        \A i, j \in 1..Len(es) : es[i].key = es[j].key => i = j}}

\* The result data of a piece of work: a string, or an object.
ResultDatas == {JString("x")} \cup Payloads

\* A call of createMasumiInputHash on a structured payload, as a step of
\* its own.
HashInput(payload, salt) ==
  /\ lastOp' = Step("createMasumiInputHash", "caller", Absent, "returned",
                    inputHashOf(payload, salt),
                    [payload |-> payload, salt |-> salt], Unserved)
  /\ UNCHANGED <<agentIdentifier, registeredAgents, pendingPayments, statusMonitorInterval, isMonitoring,
                 activeTimers, listeners, inflight, ledger, emitted, polled>>

\* The remote answers a refresh with the payment of either purchaser, and
\* a submission with the payment in ResultSubmitted; or the call fails.
HashAnswersOf(call) ==
  {Fail("HTTP500")}
  \cup {Ok(Payment(call.id, p,
                   IF call.op = "submitResult" THEN "ResultSubmitted" ELSE "FundsLocked",
                   PayBy0, SubmitBy0)) : p \in Purchasers}

InitHash ==
  /\ Init
  /\ agentIdentifier = "agent1"
  /\ ledger = NoLedger

HashHistories ==
  UNCHANGED <<lastRefresh, createdWith, everTerminal, closed, journey, announced, cycle>>

NextHash ==
  \/ \E payload \in Payloads, salt \in Purchasers :
       HashInput(payload, salt) /\ HashHistories
  \/ Room(MaxHashCalls) /\ CheckPaymentStatus("b1") /\ HashHistories
  \/ \E i \in 1..Len(inflight) : \E a \in HashAnswersOf(inflight[i]) :
       CheckReturns(i, a) /\ HashHistories
  \/ \E resultData \in ResultDatas :
       /\ Room(MaxHashCalls) \/ ~MapHas(pendingPayments, "b1")
       /\ SubmitResult("b1", outputDataOf(resultData)) /\ HashHistories
  \/ \E i \in 1..Len(inflight) : \E a \in HashAnswersOf(inflight[i]) :
       SubmitReturns(i, a) /\ HashHistories

SpecHash == InitHash /\ [][NextHash]_vars

(***************************************************************************)
(* Properties                                                              *)
(***************************************************************************)
\* The step taken is the synchronous part of a method: no answer is consumed.
Called(op) == lastOp'.op = op /\ lastOp'.by = "caller" /\ lastOp'.remote = Unserved

\* The step taken consumed the remote's answer to a caller's call of `op`.
Answered(op, kind) == lastOp'.op = op /\ lastOp'.by = "caller" /\ lastOp'.remote.kind = kind

\* The manager's own state is what it was before the step.
ManagerUnchanged ==
  UNCHANGED <<pendingPayments, statusMonitorInterval, isMonitoring, activeTimers, inflight>>

\* C1: at most one polling timer is active at any time, and a call of
\* startStatusMonitoring while the monitor is running creates no timer,
\* changes no state, emits nothing and returns normally.
C1_SingleTimer ==
  /\ [](Cardinality(activeTimers) <= 1)
  /\ [][(Called("startStatusMonitoring") /\ isMonitoring) =>
          /\ ManagerUnchanged
          /\ emitted' = <<>>
          /\ lastOp'.outcome = "returned"]_vars

C1_StartedTwice ==
  /\ lastOp.op = "startStatusMonitoring"
  /\ lastOp.value = "already running"
  /\ isMonitoring
  /\ activeTimers = {statusMonitorInterval}

\* C2: once the cached onChainState of an entry has been terminal, no later
\* cycle of the monitor passes that entry to checkPaymentStatus.
C2_TerminalNeverPolled == polled # Absent => polled \notin everTerminal

\* The step just taken was a successful checkPaymentStatus.
RefreshReturned == lastOp.op = "checkPaymentStatus" /\ lastOp.outcome = "returned"

\* The step just taken was the second of two successful refreshes in a row of
\* one identifier that returned the same state.
SecondInARow == RefreshReturned /\ lastRefresh.id = lastOp.id /\ lastRefresh.n = 2

\* C3 as stated: two refreshes in a row that return the same state emit
\* exactly one payment:state_changed in total, and none on the second.
C3_ExactlyOneInTotal ==
  SecondInARow =>
    /\ CountEvents(emitted, "payment:state_changed") = 0
    /\ lastRefresh.first + CountEvents(emitted, "payment:state_changed") = 1

\* C3: the second of two refreshes in a row that return the same state emits
\* no event, so the two emit the payment:state_changed events of the first;
\* and a refresh emits exactly one payment:state_changed when the returned
\* state differs from the cached one, and no event at all when it is equal.
C3_SecondEmitsNothing ==
  /\ [](SecondInARow => emitted = <<>> /\ lastRefresh.first \in {0, 1})
  /\ [][RefreshedNow =>
          IF CachedState(pendingPayments, lastOp'.id) = lastOp'.value.onChainState
          THEN emitted' = <<>>
          ELSE CountEvents(emitted', "payment:state_changed") = 1]_vars

C3_ChangedThenSame == SecondInARow /\ lastRefresh.first = 1 /\ emitted = <<>>

\* The step taken consumed a failed answer to a refresh of the monitor's cycle.
MonitorFailed ==
  lastOp'.op = "checkPaymentStatus" /\ lastOp'.by = "monitor" /\ lastOp'.outcome = "threw"

\* The cycle goes on with entry j of the store, or ends when j = 0.
CycleGoesOnWith(j) ==
  IF j = 0
  THEN polled' = Absent
  ELSE /\ polled' = pendingPayments[j].key
       /\ \E k \in 1..Len(inflight') :
            /\ inflight'[k].by = "monitor"
            /\ inflight'[k].id = pendingPayments[j].key
            /\ inflight'[k].pos = j

\* C4: when the refresh of an entry fails during a cycle, the store is left
\* as it is, exactly one payment:monitor_error with that identifier and the
\* cause is emitted, and the cycle goes on with the next non-terminal entry;
\* no other step emits payment:monitor_error.
C4_FailureIsolated ==
  [][IF MonitorFailed
     THEN /\ emitted' = <<Event("payment:monitor_error",
                                [id |-> lastOp'.id, error |-> lastOp'.remote.error])>>
          /\ pendingPayments' = pendingPayments
          /\ CycleGoesOnWith(NextPoll(pendingPayments, lastOp'.pos + 1))
     ELSE CountEvents(emitted', "payment:monitor_error") = 0]_vars

C4_SecondOfThreeFailed ==
  /\ lastOp.op = "checkPaymentStatus" /\ lastOp.by = "monitor"
  /\ lastOp.outcome = "threw"
  /\ lastOp.pos = 2
  /\ Len(pendingPayments) = 3
  /\ \A j \in 1..3 : ~IsCompleted(pendingPayments[j].val)
  /\ lastOp.id = pendingPayments[2].key
  /\ polled = pendingPayments[3].key
  /\ CountEvents(emitted, "payment:monitor_error") = 1

\* C5: submitResult for an identifier the store does not hold throws
\* UnknownPayment, makes no remote call, emits nothing and leaves the store
\* as it is.
C5_UnknownPaymentRejected ==
  [][(Called("submitResult") /\ ~MapHas(pendingPayments, lastOp'.id)) =>
       /\ lastOp'.outcome = "threw"
       /\ lastOp'.value = "UnknownPayment"
       /\ ManagerUnchanged
       /\ emitted' = <<>>]_vars

C5_SubmitUnknown ==
  /\ lastOp.op = "submitResult"
  /\ lastOp.outcome = "threw"
  /\ lastOp.value = "UnknownPayment"
  /\ ~MapHas(pendingPayments, lastOp.id)
  /\ pendingPayments # <<>>

\* C6: createPaymentRequest without a configured agentIdentifier (undefined,
\* or the empty string) throws
\* NotProvisioned before any remote call, leaves the store as it is and
\* emits nothing.
C6_NotProvisionedRejected ==
  [][(Called("createPaymentRequest") /\ agentIdentifier \in {Absent, Empty}) =>
       /\ lastOp'.outcome = "threw"
       /\ lastOp'.value = "NotProvisioned"
       /\ ManagerUnchanged
       /\ emitted' = <<>>]_vars

C6_CreateUnprovisioned ==
  /\ lastOp.op = "createPaymentRequest"
  /\ lastOp.outcome = "threw"
  /\ lastOp.value = "NotProvisioned"
  /\ agentIdentifier = Empty
  /\ inflight = <<>>

\* The step just taken consumed the remote's answer of kind `kind` to `op`.
JustAnswered(op, kind) == lastOp.op = op /\ lastOp.by = "caller" /\ lastOp.remote.kind = kind

\* C7: a createPaymentRequest that the remote answers with an entity stores
\* that entity under its blockchainIdentifier, emits exactly one
\* payment:created carrying it, and returns it.
C7_CreatedIsStored ==
  JustAnswered("createPaymentRequest", "ok") =>
    /\ lastOp.outcome = "returned"
    /\ lastOp.value = lastOp.remote.entity
    /\ MapHas(pendingPayments, lastOp.value.blockchainIdentifier)
    /\ MapGet(pendingPayments, lastOp.value.blockchainIdentifier) = lastOp.value
    /\ emitted = <<Event("payment:created", lastOp.value)>>

C7_CreateReturned ==
  /\ JustAnswered("createPaymentRequest", "ok")
  /\ lastOp.value.blockchainIdentifier = "b2"
  /\ Len(pendingPayments) = 2

\* C8: a createPaymentRequest whose remote call fails throws that failure
\* unmodified, inserts nothing and emits nothing.
C8_CreateFailurePropagates ==
  [][Answered("createPaymentRequest", "fail") =>
       /\ lastOp'.outcome = "threw"
       /\ lastOp'.value = lastOp'.remote.error
       /\ pendingPayments' = pendingPayments
       /\ emitted' = <<>>]_vars

C8_CreateFailed ==
  /\ JustAnswered("createPaymentRequest", "fail")
  /\ lastOp.outcome = "threw"
  /\ lastOp.value = "HTTP500"

\* C9: a submitResult that the remote answers with an entity overwrites the
\* cached entry with it and emits exactly one payment:result_submitted with
\* the identifier and the resultHash that was sent; when the remote call
\* fails the entry is left as it is and nothing is emitted.
C9_SubmitStoresResponse ==
  /\ [](JustAnswered("submitResult", "ok") =>
          /\ MapHas(pendingPayments, lastOp.id)
          /\ MapGet(pendingPayments, lastOp.id) = lastOp.remote.entity
          /\ emitted = <<Event("payment:result_submitted",
                               [blockchainIdentifier |-> lastOp.id,
                                resultHash |-> lastOp.request.resultHash])>>)
  /\ [][(Called("submitResult") /\ MapHas(pendingPayments, lastOp'.id)) =>
          \E out \in Outputs :
            lastOp'.request.resultHash =
              createMasumiOutputHash(out, MapGet(pendingPayments, lastOp'.id).identifierFromPurchaser)]_vars
  /\ [][Answered("submitResult", "fail") =>
          /\ lastOp'.outcome = "threw"
          /\ pendingPayments' = pendingPayments
          /\ emitted' = <<>>]_vars

C9_SubmitOverwrote ==
  /\ JustAnswered("submitResult", "ok")
  /\ lastOp.remote.entity.onChainState = "ResultSubmitted"
  /\ CountEvents(emitted, "payment:result_submitted") = 1

\* C10: a payment created with identifierFromPurchaser = P still has P in
\* its cached entry after any later successful refresh, submit or refund,
\* so that submitResult computes its hash with the salt P.
C10_PurchaserKept ==
  /\ \A id \in FieldIds :
       (createdWith[id] # Absent /\ MapHas(pendingPayments, id)) =>
         MapGet(pendingPayments, id).identifierFromPurchaser = createdWith[id]
  /\ (lastOp.op = "submitResult" /\ lastOp.outcome = "pending"
        /\ createdWith[lastOp.id] # Absent) =>
       lastOp.request.resultHash[3] = createdWith[lastOp.id]

\* The data callers hand over for hashing.
RawData == InputDatas \cup Outputs

\* A field value that is a digest and not the data it was computed from.
IsDigest(h) == Len(h) = 3 /\ h[1] = "sha256"

\* C11: no request of createPaymentRequest or submitResult carries the raw
\* inputData or outputData: the only fields are those of the payloads, the
\* hash fields hold digests and no other field holds the data.
C11_OnlyHashesSent ==
  \A i \in 1..Len(inflight) :
    LET r == inflight[i].request
    IN  /\ inflight[i].op = "createPaymentRequest" =>
             /\ DOMAIN r \subseteq {"agentIdentifier", "network", "paymentType", "payByTime",
                                    "submitResultTime", "identifierFromPurchaser",
                                    "inputHash", "metadata"}
             /\ \A f \in DOMAIN r \cap {"agentIdentifier", "network", "paymentType",
                                        "identifierFromPurchaser", "metadata"} :
                  r[f] \notin RawData
             /\ "inputHash" \in DOMAIN r => IsDigest(r.inputHash)
        /\ inflight[i].op = "submitResult" =>
             /\ DOMAIN r = {"blockchainIdentifier", "network", "resultHash"}
             /\ r.blockchainIdentifier \notin RawData
             /\ r.network \notin RawData
             /\ IsDigest(r.resultHash)

C11_HashInFlight ==
  \E i \in 1..Len(inflight) :
    /\ inflight[i].op = "createPaymentRequest"
    /\ "inputHash" \in DOMAIN inflight[i].request
    /\ inflight[i].request.inputHash = createMasumiInputHash("in1", "p1")

\* C12: an authorizeRefund that the remote answers with an entity replaces
\* the cached entry of the identifier by it and emits exactly one
\* payment:refund_authorized carrying the identifier; when the remote call
\* fails the store is left as it is and nothing is emitted.
C12_RefundStoresResponse ==
  /\ [](JustAnswered("authorizeRefund", "ok") =>
          /\ lastOp.outcome = "returned"
          /\ lastOp.value = lastOp.remote.entity
          /\ MapHas(pendingPayments, lastOp.id)
          /\ MapGet(pendingPayments, lastOp.id) = lastOp.remote.entity
          /\ emitted = <<Event("payment:refund_authorized",
                               [blockchainIdentifier |-> lastOp.id])>>)
  /\ [][Answered("authorizeRefund", "fail") =>
          /\ lastOp'.outcome = "threw"
          /\ pendingPayments' = pendingPayments
          /\ emitted' = <<>>]_vars

C12_RefundOverwrote ==
  /\ JustAnswered("authorizeRefund", "ok")
  /\ Len(pendingPayments) = 2
  /\ lastOp.id = pendingPayments[1].key
  /\ lastOp.remote.entity.onChainState = "RefundWithdrawn"
  /\ CountEvents(emitted, "payment:refund_authorized") = 1

\* C13 as stated: authorizeRefund for an identifier the store does not hold
\* throws UnknownPayment, and its answer adds no entry to the store.
C13_RefundUnknownRejected ==
  [][/\ (Called("authorizeRefund") /\ ~MapHas(pendingPayments, lastOp'.id)) =>
          (lastOp'.outcome = "threw" /\ lastOp'.value = "UnknownPayment")
     /\ (lastOp'.op = "authorizeRefund" /\ ~MapHas(pendingPayments, lastOp'.id)) =>
          pendingPayments' = pendingPayments]_vars

\* C13: authorizeRefund does not look at the store before the call: for an
\* identifier the store does not hold it sends the request all the same;
\* when the remote answers with an entity that entity is added under the
\* identifier and one payment:refund_authorized is emitted, and when the
\* remote call fails that failure is thrown and no entry is added.
C13_RefundUnknownSent ==
  /\ [][(Called("authorizeRefund") /\ ~MapHas(pendingPayments, lastOp'.id)) =>
          /\ lastOp'.outcome = "pending"
          /\ inflight' = Append(inflight, Call("authorizeRefund", "caller", lastOp'.id,
                                               IdRequest(lastOp'.id), 0))
          /\ pendingPayments' = pendingPayments
          /\ emitted' = <<>>]_vars
  /\ [][(Answered("authorizeRefund", "ok") /\ ~MapHas(pendingPayments, lastOp'.id)) =>
          /\ pendingPayments' = Append(pendingPayments,
                                       [key |-> lastOp'.id, val |-> lastOp'.remote.entity])
          /\ emitted' = <<Event("payment:refund_authorized",
                                [blockchainIdentifier |-> lastOp'.id])>>]_vars
  /\ [][(Answered("authorizeRefund", "fail") /\ ~MapHas(pendingPayments, lastOp'.id)) =>
          /\ lastOp'.outcome = "threw"
          /\ lastOp'.value = lastOp'.remote.error
          /\ pendingPayments' = pendingPayments]_vars

C13_RefundOfUnknownInFlight ==
  /\ lastOp.op = "authorizeRefund"
  /\ lastOp.outcome = "pending"
  /\ ~MapHas(pendingPayments, lastOp.id)
  /\ pendingPayments # <<>>
  /\ \E i \in 1..Len(inflight) :
       inflight[i].op = "authorizeRefund" /\ inflight[i].id = lastOp.id

\* C14: listPayments changes nothing in the store and emits no event,
\* whether the remote call succeeds or fails, and the monitor refreshes only
\* identifiers the store holds, so that listed payments are not polled.
C14_ListLeavesStore ==
  /\ [][lastOp'.op = "listPayments" =>
          /\ pendingPayments' = pendingPayments
          /\ emitted' = <<>>
          /\ polled' = Absent]_vars
  /\ [](polled # Absent => MapHas(pendingPayments, polled))
  /\ [](\A i \in 1..Len(inflight) :
          inflight[i].op = "checkPaymentStatus" => inflight[i].id = "b1")

C14_ListedNotTracked ==
  /\ lastOp.op = "listPayments"
  /\ lastOp.outcome = "returned"
  /\ Len(lastOp.value.payments) = 2
  /\ lastOp.value.payments[1].blockchainIdentifier \notin MapKeys(pendingPayments)
  /\ isMonitoring
  /\ pendingPayments # <<>>

\* C15: stopStatusMonitoring cancels the active timer and leaves the store
\* and the listeners as they are; with no timer active it changes nothing.
C15_StopKeepsStore ==
  [][Called("stopStatusMonitoring") =>
       /\ pendingPayments' = pendingPayments
       /\ listeners' = listeners
       /\ inflight' = inflight
       /\ emitted' = <<>>
       /\ activeTimers' = {}
       /\ statusMonitorInterval' = NoTimer
       /\ ~isMonitoring'
       /\ activeTimers = {} =>
            /\ statusMonitorInterval' = statusMonitorInterval
            /\ isMonitoring' = isMonitoring]_vars

C15_StoppedWithStore ==
  /\ lastOp.op = "stopStatusMonitoring"
  /\ lastOp.value = "stopped"
  /\ pendingPayments # <<>>
  /\ listeners # {}
  /\ activeTimers = {}

\* C16: when close has returned no timer is active, the store is empty and
\* no listener is registered, whatever the state before the call.
C16_CloseResets ==
  lastOp.op = "close" =>
    /\ activeTimers = {}
    /\ statusMonitorInterval = NoTimer
    /\ ~isMonitoring
    /\ pendingPayments = <<>>
    /\ listeners = {}

C16_ClosedWhilePolling ==
  /\ lastOp.op = "close"
  /\ \E i \in 1..Len(inflight) : inflight[i].by = "monitor"

\* C17: the answer to a call that was in flight when close was called is
\* discarded: after close the store stays empty and no event of that answer
\* reaches a listener.
C17_LateAnswerDiscarded ==
  closed => (pendingPayments = <<>> /\ Delivered(emitted, listeners) = <<>>)

\* C18: end to end.  After a create that leaves the store with one entry
\* without onChainState, the refresh that returns FundsLocked emits
\* payment:funds_locked exactly once, submitResult sends the digest of the
\* output and the purchaser identifier given at creation, the later refresh
\* that returns Withdrawn emits payment:completed exactly once, and from
\* then on the monitor does not refresh the entry.
C18_EndToEnd ==
  /\ journey.stage >= 2 => journey.locked = 1
  /\ journey.stage >= 3 =>
       \E out \in Outputs :
         journey.hash = createMasumiOutputHash(out, createdWith[journey.id])
  /\ journey.stage = 5 => (journey.completed = 1 /\ ~journey.polled)

\* C19: masumi_complete_payment submits the work result: for a payment
\* that masumi_create_payment created or masumi_check_payment checked, the
\* tool sends the submit-result request, and it does not return a failure
\* unless that remote call fails.
C19_CompleteSubmits ==
  [][(lastOp'.op = "masumi_complete_payment" /\ lastOp'.remote = Unserved
        /\ createdWith[lastOp'.id] # Absent) =>
       /\ lastOp'.outcome = "pending"
       /\ \E i \in 1..Len(inflight') :
            inflight'[i].op = "submitResult" /\ inflight'[i].id = lastOp'.id]_vars

\* Two JSON values that are the same mapping: the same keys with the same
\* values, whatever the order the keys were inserted in.
RECURSIVE SameMapping(_, _)
SameMapping(p, q) ==
  /\ p.type = q.type
  /\ p.text = q.text
  /\ Len(p.entries) = Len(q.entries)
  /\ \A i \in 1..Len(p.entries) :
       \E j \in 1..Len(q.entries) :
         /\ p.entries[i].key = q.entries[j].key
         /\ SameMapping(p.entries[i].val, q.entries[j].val)

\* The step is a call of createMasumiInputHash that has returned its digest.
InputHashed == lastOp.op = "createMasumiInputHash"

\* The step is a submitResult that has computed its resultHash and sent it.
ResultHashed == lastOp.op = "submitResult" /\ lastOp.outcome = "pending"

TerminalKeys(m) ==
  {k \in MapKeys(m) :
     getPayment(m, k).onChainState \in {"Withdrawn", "RefundWithdrawn", "DisputedWithdrawn"}}

\* C21: an entry leaves the store only in a step of cleanupCompletedPayments
\* or close, so a terminal entry stays queryable through getPayment until
\* then; cleanupCompletedPayments removes exactly the entries whose
\* onChainState is terminal, returns their number and leaves every other
\* entry as it was and in its place.
C21_OnlyCleanupRemoves ==
  [][/\ lastOp'.op \notin {"cleanupCompletedPayments", "close"} =>
          MapKeys(pendingPayments) \subseteq MapKeys(pendingPayments')
     /\ lastOp'.op = "cleanupCompletedPayments" =>
          /\ MapKeys(pendingPayments') =
               MapKeys(pendingPayments) \ TerminalKeys(pendingPayments)
          /\ lastOp'.value = Cardinality(TerminalKeys(pendingPayments))
          /\ Len(pendingPayments') = Cardinality(MapKeys(pendingPayments'))
          /\ \A k \in MapKeys(pendingPayments') :
               getPayment(pendingPayments', k) = getPayment(pendingPayments, k)
          /\ \A i, j \in 1..Len(pendingPayments') :
               i < j => MapIndex(pendingPayments, pendingPayments'[i].key)
                          < MapIndex(pendingPayments, pendingPayments'[j].key)]_vars

C21_CleanedTwoOfThree ==
  /\ lastOp.op = "cleanupCompletedPayments"
  /\ lastOp.value = 2
  /\ Len(pendingPayments) = 1
  /\ ~IsCompleted(pendingPayments[1].val)

\* A createPaymentRequest has just sent its request.
CreateSent == lastOp.op = "createPaymentRequest" /\ lastOp.outcome = "pending"

\* C22: a createPaymentRequest sends payByTime = now + 12h when the caller
\* gave no payByTime and submitResultTime = now + 24h when the caller gave
\* no submitResultTime, now being what Date.now() returns when the default
\* is computed (the first read of the call for payByTime, the next one for
\* submitResultTime); a deadline the caller gave is sent as given.
C22_DefaultDeadlines ==
  CreateSent =>
    LET params == lastOp.args.params
        clock == lastOp.args.clock
        reads == IF "payByTime" \in DOMAIN params THEN 0 ELSE 1
        sent == lastOp.request
    IN  /\ \E i \in 1..Len(inflight) : inflight[i].request = sent
        /\ sent.payByTime =
             toISOString(IF "payByTime" \in DOMAIN params THEN params.payByTime
                         ELSE clock[1] + 43200000)
        /\ sent.submitResultTime =
             toISOString(IF "submitResultTime" \in DOMAIN params
                         THEN params.submitResultTime
                         ELSE clock[reads + 1] + 86400000)

\* A request with the default submitResultTime of a later call time and the
\* payByTime its caller gave.
C22_OneGivenOneDefault ==
  /\ CreateSent
  /\ lastOp.args.clock = Steady(90000)
  /\ lastOp.request.payByTime = toISOString(7200000)
  /\ lastOp.request.submitResultTime = toISOString(86490000)

\* C23: every successful checkPaymentStatus, of a caller or of the monitor,
\* leaves the remote's response as the cached entry of the identifier, with
\* nothing of the previous entry kept, whether or not the identifier was
\* cached and whether or not the state changed; the other entries stay as
\* they were.
C23_RefreshOverwrites ==
  [][RefreshedNow =>
       /\ MapKeys(pendingPayments') = MapKeys(pendingPayments) \cup {lastOp'.id}
       /\ getPayment(pendingPayments', lastOp'.id) = lastOp'.remote.entity
       /\ \A k \in MapKeys(pendingPayments) \ {lastOp'.id} :
            getPayment(pendingPayments', k) = getPayment(pendingPayments, k)]_vars

\* A refresh whose response lacks the purchaser identifier the payment was
\* created with: the cached entry lacks it too.
C23_RefreshedWithoutPurchaser ==
  /\ RefreshReturned
  /\ createdWith[lastOp.id] = "p1"
  /\ lastOp.remote.entity.identifierFromPurchaser = Absent
  /\ MapHas(pendingPayments, lastOp.id)
  /\ getPayment(pendingPayments, lastOp.id).identifierFromPurchaser = Absent

\* The names of the events the step emitted, in order.
EmittedNames == [i \in 1..Len(emitted') |-> emitted'[i].name]

\* C24: a refresh that observes a state different from the cached one (a
\* missing entry or state counts as absent) emits payment:state_changed
\* first, carrying the identifier, the previous state, the new state and
\* the full entity, then payment:funds_locked with the entity when the new
\* state is FundsLocked or payment:completed with the entity when it is
\* Withdrawn, and nothing else for any other new state.
C24_ChangeThenSpecific ==
  [][(RefreshedNow /\ CachedState(pendingPayments, lastOp'.id) # lastOp'.value.onChainState) =>
       LET previous == CachedState(pendingPayments, lastOp'.id)
           new == lastOp'.value.onChainState
       IN  /\ Len(emitted') >= 1
           /\ emitted'[1] =
                Event("payment:state_changed",
                      [blockchainIdentifier |-> lastOp'.id,
                       previousState |-> IF previous = Absent THEN Null ELSE previous,
                       newState |-> IF new = Absent THEN Null ELSE new,
                       payment |-> lastOp'.value])
           /\ EmittedNames =
                IF new = "FundsLocked"
                THEN <<"payment:state_changed", "payment:funds_locked">>
                ELSE IF new = "Withdrawn"
                THEN <<"payment:state_changed", "payment:completed">>
                ELSE <<"payment:state_changed">>
           /\ Len(emitted') = 2 => emitted'[2].data = lastOp'.value]_vars

\* A refresh that found FundsLocked cached and Withdrawn on the remote.
C24_LockedToWithdrawn ==
  /\ RefreshReturned
  /\ Len(emitted) = 2
  /\ emitted[1].name = "payment:state_changed"
  /\ emitted[1].data.previousState = "FundsLocked"
  /\ emitted[1].data.newState = "Withdrawn"
  /\ emitted[2].name = "payment:completed"

\* C25: against a remote whose state only moves forward, each change of
\* state is announced at most once: no two payment:state_changed events of
\* one identifier carry the same new state, however the refreshes that
\* received it interleave.
C25_AnnouncedOnce == \A id \in MonitorIds : ~announced[id].repeated

\* C28: against a remote whose state only moves forward, the new states
\* the payment:state_changed events of one identifier announce never go
\* back along the lifecycle (absent, WaitingForExternalAction, FundsLocked,
\* ResultSubmitted, terminal), however scheduled and on-demand refreshes
\* interleave.
C28_NonDecreasing == \A id \in MonitorIds : ~announced[id].regressed

\* The step taken consumed a failed answer to a checkPaymentStatus.
RefreshFailed == lastOp'.op = "checkPaymentStatus" /\ lastOp'.outcome = "threw"

\* The refresh of `id` in the monitor's cycle has just failed.
MonitorFailedOn(id) ==
  /\ lastOp.op = "checkPaymentStatus" /\ lastOp.by = "monitor"
  /\ lastOp.outcome = "threw" /\ lastOp.id = id

\* C26: a refresh that fails, on demand or in the monitor's cycle, leaves
\* the store and the timer as they were and emits none of
\* payment:state_changed, payment:funds_locked and payment:completed; and
\* while monitoring is active an entry whose scheduled refresh failed is
\* passed to checkPaymentStatus again, unless its cached state has become
\* terminal.
C26_FailedRefreshRetried ==
  /\ [][RefreshFailed =>
          /\ pendingPayments' = pendingPayments
          /\ UNCHANGED <<statusMonitorInterval, isMonitoring, activeTimers>>
          /\ \A i \in 1..Len(emitted') :
               emitted'[i].name \notin {"payment:state_changed", "payment:funds_locked",
                                        "payment:completed"}]_vars
  /\ \A id \in Ids :
       (MonitorFailedOn(id) /\ activeTimers # {})
         ~> (polled = id \/ IsCompleted([onChainState |-> CachedState(pendingPayments, id)]))

\* The second entry's scheduled refresh failed while the first entry stays
\* non-terminal and the timer is active.
C26_SecondEntryFailed ==
  /\ MonitorFailedOn("b2")
  /\ activeTimers # {}
  /\ Len(pendingPayments) = 2
  /\ pendingPayments[2].key = "b2"
  /\ pendingPayments[2].val.onChainState = "FundsLocked"
  /\ pendingPayments[1].val.onChainState = "FundsLocked"

\* The remote calls in flight that the monitor's callback issued.
SchedulerCalls == {i \in 1..Len(inflight) : inflight[i].by = "monitor"}

\* C27: at any moment at most one remote call issued by the monitor is in
\* flight, also when the interval fires while a cycle is still suspended on
\* its remote call.
C27_OneSchedulerCall == Cardinality(SchedulerCalls) <= 1

\* C29: a cycle of the monitor passes no identifier to checkPaymentStatus
\* twice, and what it passes is an entry of the store that is non-terminal
\* (an entry with no onChainState included), whatever is inserted or
\* overwritten while the cycle is suspended.
C29_EachEntryOnce ==
  /\ ~cycle.twice
  /\ polled # Absent =>
       /\ MapHas(pendingPayments, polled)
       /\ ~IsCompleted(getPayment(pendingPayments, polled))

SingleShotOps == {"createPaymentRequest", "checkPaymentStatus", "submitResult",
                  "authorizeRefund"}

\* C30: a call of createPaymentRequest, checkPaymentStatus, submitResult or
\* authorizeRefund sends exactly one remote request, or none when it throws
\* on its precondition (agent not provisioned, payment unknown); when the
\* answer arrives, failed or not, the method ends without sending another
\* request, and a failure is thrown to the caller.
C30_SingleShot ==
  [][\A op \in SingleShotOps :
       /\ Called(op) =>
            IF \/ op = "createPaymentRequest" /\ agentIdentifier \in {Absent, Empty}
               \/ op = "submitResult" /\ ~MapHas(pendingPayments, lastOp'.id)
            THEN lastOp'.outcome = "threw" /\ inflight' = inflight
            ELSE /\ lastOp'.outcome = "pending"
                 /\ Len(inflight') = Len(inflight) + 1
                 /\ SubSeq(inflight', 1, Len(inflight)) = inflight
                 /\ inflight'[Len(inflight')].op = op
                 /\ inflight'[Len(inflight')].request = lastOp'.request
       /\ (Answered(op, "ok") \/ Answered(op, "fail")) =>
            /\ Len(inflight') = Len(inflight) - 1
            /\ \A j \in 1..Len(inflight') : \E k \in 1..Len(inflight) : inflight'[j] = inflight[k]
            /\ lastOp'.outcome \in {"threw", "returned"}
            /\ lastOp'.remote.kind = "fail" => lastOp'.outcome = "threw"]_vars

\* A submitResult whose remote call failed: the error is thrown and no call
\* is in flight.
C30_SubmitFailedOnce ==
  /\ lastOp.op = "submitResult"
  /\ lastOp.remote.kind = "fail"
  /\ lastOp.outcome = "threw"
  /\ inflight = <<>>

\* C31: a refresh, a submit or a refund leaves the payByTime and the
\* submitResultTime of an entry the store holds as they were.
C31_DeadlinesKept ==
  [][\A id \in FieldIds :
       (/\ lastOp'.op \in {"checkPaymentStatus", "submitResult", "authorizeRefund"}
        /\ MapHas(pendingPayments, id)
        /\ MapHas(pendingPayments', id)) =>
         /\ getPayment(pendingPayments', id).payByTime
              = getPayment(pendingPayments, id).payByTime
         /\ getPayment(pendingPayments', id).submitResultTime
              = getPayment(pendingPayments, id).submitResultTime]_vars

\* C32: every entry of the store is held under the key that is its own
\* blockchainIdentifier (so the blockchainIdentifier of the entry under a key
\* never changes).
C32_KeyIsIdentifier ==
  \A i \in 1..Len(pendingPayments) :
    pendingPayments[i].key = pendingPayments[i].val.blockchainIdentifier

\* C33: the monitor passes an entry to checkPaymentStatus only while
\* monitoring is on: once stopStatusMonitoring has returned, no cycle polls
\* another entry, the cycle suspended at the stop included.
C33_StopEndsPolling == polled # Absent => isMonitoring

\* C34: a step that changes the cached onChainState of an entry emits a
\* payment:state_changed for it whose previousState and newState are the
\* cached states before and after the step.
C34_ChangeAnnounced ==
  [][\A id \in Ids :
       (/\ MapHas(pendingPayments, id)
        /\ MapHas(pendingPayments', id)
        /\ CachedState(pendingPayments', id) # CachedState(pendingPayments, id)) =>
         \E k \in 1..Len(emitted') :
           /\ emitted'[k].name = "payment:state_changed"
           /\ emitted'[k].data.blockchainIdentifier = id
           /\ emitted'[k].data.previousState = OrNull(CachedState(pendingPayments, id))
           /\ emitted'[k].data.newState = OrNull(CachedState(pendingPayments', id))]_vars

\* C35: an entry whose cached onChainState has been terminal since it was
\* inserted holds a terminal state: no answer that arrives later puts a
\* non-terminal state in its place.
C35_TerminalStays ==
  \A id \in everTerminal : IsCompleted(getPayment(pendingPayments, id))

\* The events that report on a payment.
PaymentEvents ==
  {"payment:created", "payment:state_changed", "payment:funds_locked",
   "payment:completed", "payment:result_submitted", "payment:refund_authorized"}

\* C36: when one of the six payment events is delivered to a listener, the
\* store the listener reads holds, under the identifier the method that
\* emits it stores its response under, the entity the remote just answered
\* with: it is the entity the event carries, its onChainState is the
\* newState of a payment:state_changed, and the events that carry an
\* identifier carry that one.
C36_StoredBeforeDelivered ==
  [][\A k \in 1..Len(Delivered(emitted', listeners)) :
       LET event == emitted'[k]
           store == StoreAtEmit(pendingPayments, pendingPayments')
           id == lastOp'.id
       IN  event.name \in PaymentEvents =>
             /\ MapHas(store, id)
             /\ getPayment(store, id) = lastOp'.value
             /\ event.name \in {"payment:created", "payment:funds_locked",
                                "payment:completed"} =>
                  event.data = getPayment(store, id)
             /\ event.name = "payment:state_changed" =>
                  /\ event.data.blockchainIdentifier = id
                  /\ event.data.payment = getPayment(store, id)
                  /\ event.data.newState = OrNull(getPayment(store, id).onChainState)
             /\ event.name \in {"payment:result_submitted",
                                "payment:refund_authorized"} =>
                  event.data.blockchainIdentifier = id]_vars

\* A listener is registered and the monitor's refresh of b1 has just
\* delivered payment:state_changed and payment:completed.
C36_CompletedDelivered ==
  /\ listeners # {}
  /\ lastOp.by = "monitor"
  /\ CountEvents(Delivered(emitted, listeners), "payment:state_changed") = 1
  /\ CountEvents(Delivered(emitted, listeners), "payment:completed") = 1
  /\ getPayment(pendingPayments, "b1").onChainState = "Withdrawn"

\* The instant an ISO text denotes.
InstantOf(iso) == iso[2]

\* C37: every create request awaiting the remote has its payByTime not later
\* than its submitResultTime.
C37_PayByBeforeSubmitBy ==
  \A i \in 1..Len(inflight) :
    inflight[i].op = "createPaymentRequest" =>
      InstantOf(inflight[i].request.payByTime)
        <= InstantOf(inflight[i].request.submitResultTime)

\* C39: a successful updateAgent leaves the returned agent in the cache and
\* emits agent:updated with it; after that it emits agent:state_changed,
\* with the state replaced and the state returned, exactly when the cache
\* held the agent in another state than the one returned, and nothing else.
C39_UpdateAnnounces ==
  [][(Answered("updateAgent", "ok") /\ lastOp'.outcome = "returned") =>
       LET agent == lastOp'.value
           id == agent.agentIdentifier
           changed == /\ MapHas(registeredAgents, id)
                      /\ MapGet(registeredAgents, id).state # agent.state
       IN  /\ MapHas(registeredAgents', id)
           /\ MapGet(registeredAgents', id) = agent
           /\ Len(emitted') = IF changed THEN 2 ELSE 1
           /\ emitted'[1] = Event("agent:updated", agent)
           /\ changed =>
                emitted'[2] = Event("agent:state_changed",
                                    [agentIdentifier |-> id,
                                     previousState |-> MapGet(registeredAgents, id).state,
                                     newState |-> agent.state])]_vars

\* C40: when the remote call of registerAgent, getAgent, searchAgents or
\* updateAgent fails, the operation emits exactly one event, registry:error
\* carrying the remote's error, throws that same error, and leaves the agent
\* cache as it was; no agent:registered, agent:updated or
\* agent:state_changed is emitted.
C40_FailureReported ==
  [][\A op \in RegistryOps :
       Answered(op, "fail") =>
         /\ emitted' = <<Event("registry:error", [message |-> lastOp'.remote.error])>>
         /\ lastOp'.outcome = "threw"
         /\ lastOp'.value = lastOp'.remote.error
         /\ registeredAgents' = registeredAgents]_vars

\* An updateAgent has failed at the remote while the cache held an agent.
C40_UpdateFailed ==
  /\ lastOp.op = "updateAgent"
  /\ lastOp.remote.kind = "fail"
  /\ lastOp.outcome = "threw"
  /\ registeredAgents # <<>>
  /\ Len(emitted) = 1
  /\ emitted[1].name = "registry:error"

\* C38: no tool throws.  A tool call that has ended has returned an object
\* with a boolean `success`; with success false the object carries an error
\* text and a message; success is true only when the remote call the tool
\* made was answered without error; when that call failed the object has
\* success false and the error is the one the manager threw; a tool that
\* ended without a remote call (agent not provisioned, payment unknown to
\* the manager) has success false.
C38_ToolsNeverThrow ==
  (lastOp.by = "tool" /\ lastOp.outcome # "pending") =>
    /\ lastOp.outcome = "returned"
    /\ lastOp.value.success \in BOOLEAN
    /\ ~lastOp.value.success => {"error", "message"} \subseteq DOMAIN lastOp.value
    /\ lastOp.value.success => lastOp.remote.kind = "ok"
    /\ lastOp.remote.kind = "fail" =>
         ~lastOp.value.success /\ lastOp.value.error = lastOp.remote.error
    /\ lastOp.remote.kind = "none" => ~lastOp.value.success

\* masumi_get_agent has ended on a failed remote call and has returned the
\* manager's error in its result.
C38_FailureReturned ==
  /\ lastOp.op = "masumi_get_agent"
  /\ lastOp.by = "tool"
  /\ lastOp.outcome = "returned"
  /\ lastOp.remote.kind = "fail"
  /\ lastOp.value.success = FALSE
  /\ lastOp.value.error = lastOp.remote.error

====
